---- MODULE Spec2Model ----
(***************************************************************************)
(* A model of the object graph of the `wiring` dependency-injection        *)
(* container: wiring/graph.py (Graph.acquire, Graph.get, registration,     *)
(* Graph.validate), wiring/providers.py and wiring/scopes.py.              *)
(***************************************************************************)
EXTENDS Integers, Sequences, FiniteSets, TLC

\* ------------------------------------------------------------------------
\* Bounds
\* ------------------------------------------------------------------------

\* Largest number of dependency edges of a graph handed to validate() in
\* SpecValidate.
MaxEdges == 4

\* Largest number of calls of user factories in one behaviour.
MaxCalls == 2

\* Largest number of wrappers that function providers make in one
\* behaviour.
MaxWrappers == 2

\* The values stored in scope objects.
MaxStores == 2

\* ------------------------------------------------------------------------
\* Specifications, argument keys, dependencies
\* ------------------------------------------------------------------------

\* The specifications (hashable keys) used by the model.
Specs == {"a", "b", "c"}

\* Python's None.
None == "None"

\* An integer argument key (a positional slot).
IntKey(i) == [type |-> "int", index |-> i, name |-> ""]

\* A string argument key (a keyword slot).
StrKey(s) == [type |-> "str", index |-> 0, name |-> s]

\* An argument key that is neither an integer nor a string: the tuple
\* ('invalid', 'argument', 'key') of the tests.
OtherKey == [type |-> "tuple", index |-> 0, name |-> "invalid"]

\* A dependency that is the bare specification S.
Direct(S) == [factory |-> FALSE, specification |-> S]

\* wiring.dependency.Factory(S): a wrapper around the specification S.
Factory(S) == [factory |-> TRUE, specification |-> S]

\* The set of dependency declarations over the specifications.
Dependencies == {Direct(S) : S \in Specs} \cup {Factory(S) : S \in Specs}

\* ------------------------------------------------------------------------
\* Validation errors (graph.py, the GraphValidationError classes)
\* ------------------------------------------------------------------------

NoError ==
    [type |-> "none", specification |-> None, dependant |-> None,
     dependency |-> None, cycle |-> <<>>]

SelfDependencyError(specification) ==
    [NoError EXCEPT !.type = "SelfDependencyError",
                    !.specification = specification]

MissingDependencyErrorSwapped(dependant, dependency) ==
    [NoError EXCEPT !.type = "MissingDependencyError",
                    !.dependant = dependency,
                    !.dependency = dependant]

MissingDependencyError(dependant, dependency) ==
    [NoError EXCEPT !.type = "MissingDependencyError",
                    !.dependant = dependant,
                    !.dependency = dependency]

DependencyCycleError(cycle) ==
    [NoError EXCEPT !.type = "DependencyCycleError", !.cycle = cycle]

\* ------------------------------------------------------------------------
\* Graph.validate: Tarjan's strongly connected components algorithm
\* ------------------------------------------------------------------------

Min(x, y) == IF x <= y THEN x ELSE y

\* reversed(seq)
Reversed(seq) == [i \in 1..Len(seq) |-> seq[Len(seq) + 1 - i]]

\* `x in stack` for a Python list.
InList(list, x) == \E i \in 1..Len(list) : list[i] = x

\* The position of x in a list that holds it once.
PositionOf(list, x) == CHOOSE i \in 1..Len(list) : list[i] = x

\* index, indices, lowlinks and stack as validate() creates them.
TarjanInit ==
    [index |-> 0, indices |-> <<>>, lowlinks |-> <<>>, stack |-> <<>>,
     error |-> NoError]

\* The head of strongconnect(): number the node and push it.
Visit(st, specification) ==
    [st EXCEPT !.indices = (specification :> st.index) @@ @,
               !.lowlinks = (specification :> st.index) @@ @,
               !.index = @ + 1,
               !.stack = Append(@, specification)]

TargetNotUnwrapped(dependency) ==
    IF dependency.factory THEN "Factory" ELSE dependency.specification

\* `if isinstance(dependency, Factory): dependency = dependency.specification`
\* A direct dependency is the specification itself.
Target(dependency) == dependency.specification

DependencyDefectNoSelfCheck(P, specification, dependency) ==
    IF dependency \notin DOMAIN P
    THEN MissingDependencyError(specification, dependency)
    ELSE NoError

\* The two checks strongconnect() makes on a dependency before it follows
\* the edge: missing first, self-dependency second.
DependencyDefect(P, specification, dependency) ==
    IF dependency \notin DOMAIN P
    THEN MissingDependencyError(specification, dependency)
    ELSE IF dependency = specification
    THEN SelfDependencyError(specification)
    ELSE NoError

PoppedWholeStack(stack, specification) ==
    Reversed(stack)

\* The `while True: component.append(stack.pop())` loop: the nodes popped,
\* in popping order, down to and including `specification`.
Popped(stack, specification) ==
    LET p == PositionOf(stack, specification)
    IN  [i \in 1..(Len(stack) - p + 1) |-> stack[Len(stack) + 1 - i]]

IsCycleMoreThanTwo(component) == Len(component) > 2

\* `if len(component) > 1`
IsCycle(component) == Len(component) > 1

\* The tail of strongconnect(): when the node is the root of a component,
\* pop the component and raise when it has more than one node.
CloseComponent(st, specification) ==
    IF st.lowlinks[specification] = st.indices[specification]
    THEN LET component == Popped(st.stack, specification)
             rest == SubSeq(st.stack, 1, Len(st.stack) - Len(component))
         IN  IF IsCycle(component)
             THEN [st EXCEPT !.stack = rest,
                             !.error = DependencyCycleError(Reversed(component))]
             ELSE [st EXCEPT !.stack = rest]
    ELSE st

RECURSIVE strongconnect(_, _, _)
RECURSIVE ScanDependencies(_, _, _, _)

\* The `for dependency in dependencies` loop of strongconnect(), from the
\* i-th value of the provider's dependency map on.
ScanDependencies(P, st, specification, i) ==
    IF i > Len(P[specification].dependencies)
    THEN st
    ELSE
      LET dependency == Target(P[specification].dependencies[i].dependency)
          defect == DependencyDefect(P, specification, dependency)
      IN  IF defect.type # "none"
          THEN [st EXCEPT !.error = defect]
          ELSE IF dependency \notin DOMAIN st.indices
          THEN LET sub == strongconnect(P, st, dependency)
               IN  IF sub.error.type # "none"
                   THEN sub
                   ELSE ScanDependencies(
                          P,
                          [sub EXCEPT !.lowlinks[specification] =
                                Min(@, sub.lowlinks[dependency])],
                          specification, i + 1)
          ELSE IF InList(st.stack, dependency)
          THEN ScanDependencies(
                 P,
                 [st EXCEPT !.lowlinks[specification] =
                       Min(@, st.indices[dependency])],
                 specification, i + 1)
          ELSE ScanDependencies(P, st, specification, i + 1)

\* The nested function strongconnect(specification) of validate().
strongconnect(P, st, specification) ==
    LET scanned == ScanDependencies(P, Visit(st, specification),
                                    specification, 1)
    IN  IF scanned.error.type # "none"
        THEN scanned
        ELSE CloseComponent(scanned, specification)

RECURSIVE ValidateFrom(_, _, _, _)

\* The `for specification, provider in six.iteritems(self.providers)` loop
\* of validate(), from the i-th key of the provider map on.
ValidateFrom(P, order, st, i) ==
    IF i > Len(order) \/ st.error.type # "none"
    THEN st
    ELSE IF order[i] \in DOMAIN st.indices
    THEN ValidateFrom(P, order, st, i + 1)
    ELSE ValidateFrom(P, order, strongconnect(P, st, order[i]), i + 1)

\* Graph.validate(): the error it raises, NoError when it returns.
validate(P, order) == ValidateFrom(P, order, TarjanInit, 1).error

\* ------------------------------------------------------------------------
\* Values
\* ------------------------------------------------------------------------

\* A dependency declaration that stands for "no declaration".
NoDependency == Direct(None)

NoValue ==
    [kind |-> "none", specification |-> None, id |-> 0, args |-> <<>>,
     kwargs |-> <<>>, cell |-> NoDependency]

\* A value the caller passes in `arguments` (or to an injected callable).
Given(n) == [NoValue EXCEPT !.kind = "given", !.id = n]

\* An object handed to register_instance().
Instance(n) == [NoValue EXCEPT !.kind = "instance", !.id = n]

\* The object a user factory builds: the factories of the model are the
\* counting factories of the tests (graph_tests.py, DBConnection): the n-th
\* call returns an object numbered n, which keeps the arguments it was
\* built from.
Object(specification, n, args, kwargs) ==
    [NoValue EXCEPT !.kind = "object", !.specification = specification,
                    !.id = n, !.args = args, !.kwargs = kwargs]

\* The nested function _factory that acquire() binds for the entry
\* Factory(declared).  `cell` is the value of the enclosing variable
\* dependency_specification that the body of _factory reads when it is
\* called; `specification` remembers the entry the function was bound for.
FactoryCallable(declared, cell) ==
    [NoValue EXCEPT !.kind = "callable", !.specification = declared,
                    !.cell = cell]

\* The nested function `wrapper` that a FunctionProvider returns: the n-th
\* wrapper made, for the function registered as `specification`; args and
\* kwargs are the arguments the provider was called with.  The list `args`
\* and the dictionary `kwargs` that the wrapper closes over are kept apart,
\* in the state, for the wrapper changes them.
Wrapper(specification, n, args, kwargs) ==
    [NoValue EXCEPT !.kind = "wrapper", !.specification = specification,
                    !.id = n, !.args = args, !.kwargs = kwargs]

\* What a wrapped function returns: the functions of the model return the
\* arguments they receive (providers_tests.py, foo(*args, **kwargs)).
Returned(specification, args, kwargs) ==
    [NoValue EXCEPT !.kind = "returned", !.specification = specification,
                    !.args = args, !.kwargs = kwargs]

\* ------------------------------------------------------------------------
\* Providers (providers.py)
\* ------------------------------------------------------------------------

\* A scope class itself (SingletonScope, ProcessScope, ThreadScope as
\* values), as opposed to the instance of it that Graph.scopes holds.
TypeObject(scope_type) == "class " \o scope_type

IsClass(scope) ==
    scope \in {TypeObject(t) :
                 t \in {"SingletonScope", "ProcessScope", "ThreadScope"}}

\* FactoryProvider(factory, scope): `dependencies` is
\* get_dependencies(factory), in the iteration order of the dictionary.
FactoryProvider(dependencies, scope) ==
    [kind |-> "FactoryProvider", dependencies |-> dependencies,
     scope |-> scope, instance |-> NoValue, raises |-> FALSE]

\* A FactoryProvider whose factory raises an exception of its own when it
\* is called.
FailingFactoryProvider(dependencies, scope) ==
    [FactoryProvider(dependencies, scope) EXCEPT !.raises = TRUE]

\* InstanceProvider(instance): no dependencies, no scope.
InstanceProvider(instance) ==
    [kind |-> "InstanceProvider", dependencies |-> <<>>, scope |-> None,
     instance |-> instance, raises |-> FALSE]

\* FunctionProvider(function): ProviderBase.__init__ leaves the scope None.
FunctionProvider(dependencies) ==
    [kind |-> "FunctionProvider", dependencies |-> dependencies,
     scope |-> None, instance |-> NoValue, raises |-> FALSE]

InvokeOnce(provider, specification, rt, args, kwargs) ==
    [value |-> Object(specification, 1, args, kwargs),
     counter |-> [rt.counter EXCEPT ![specification] = 1],
     wrappers |-> rt.wrappers]

\* provider(*args, **kwargs): the value returned, the counters of the
\* user factories and the closures of the wrappers afterwards.  An
\* instance provider returns its instance, a factory provider calls the
\* factory, a function provider makes a wrapper around `list(args)` and
\* `kwargs` and does not call the function.
Invoke(provider, specification, rt, args, kwargs) ==
    IF provider.kind = "InstanceProvider"
    THEN [value |-> provider.instance, counter |-> rt.counter,
          wrappers |-> rt.wrappers]
    ELSE IF provider.kind = "FunctionProvider"
    THEN [value |-> Wrapper(specification, Len(rt.wrappers) + 1,
                            args, kwargs),
          counter |-> rt.counter,
          wrappers |-> Append(rt.wrappers,
                              [wrapper |-> Wrapper(specification,
                                                   Len(rt.wrappers) + 1,
                                                   args, kwargs),
                               args |-> args, kwargs |-> kwargs])]
    ELSE [value |-> Object(specification, rt.counter[specification] + 1,
                           args, kwargs),
          counter |-> [rt.counter EXCEPT ![specification] = @ + 1],
          wrappers |-> rt.wrappers]

\* ------------------------------------------------------------------------
\* Graph.acquire and Graph.get
\* ------------------------------------------------------------------------

\* The deepest chain of nested acquire() calls an acyclic chain of eager
\* dependencies can need; a deeper chain repeats a specification and never
\* ends, which Python reports as a RecursionError.
MaxDepth == Cardinality(Specs)

CacheHitNever(provider, cache, specification) == FALSE

\* `provider.scope is not None` and `specification in provider.scope`
CacheHit(provider, cache, specification) ==
    /\ provider.scope # None
    /\ specification \in DOMAIN cache[provider.scope]

NeedsInjectionAlways(argument, realized_dependencies) == TRUE

NeedsInjectionNever(argument, realized_dependencies) == FALSE

\* `if argument not in realized_dependencies`
NeedsInjection(argument, realized_dependencies) ==
    argument \notin DOMAIN realized_dependencies

\* The value of the variable dependency_specification of one acquire()
\* call once its loop over the dependencies has ended: the last item the
\* loop was given.
LoopVariableAtExit(dependencies) == dependencies[Len(dependencies)].dependency

\* The integer keys of the realized dependencies.
IntKeys(realized_dependencies) ==
    {k \in DOMAIN realized_dependencies : k.type = "int"}

\* map(itemgetter(1), sorted(args, key=itemgetter(0))): the values under the
\* integer keys, by ascending key.
Positional(realized_dependencies) ==
    LET keys == IntKeys(realized_dependencies)
        nth(i) == CHOOSE k \in keys :
                     Cardinality({j \in keys : j.index < k.index}) = i - 1
    IN  [i \in 1..Cardinality(keys) |-> realized_dependencies[nth(i)]]

\* kwargs: the values under the string keys, by name.
Keyword(realized_dependencies) ==
    LET names == {k.name : k \in {j \in DOMAIN realized_dependencies :
                                     j.type = "str"}}
    IN  [n \in names |-> realized_dependencies[StrKey(n)]]

InvalidKeysNone(realized_dependencies) == {}

\* The keys of the realized dependencies that are neither integers nor
\* strings: the `else: raise TypeError` branch of the partition loop.
InvalidKeys(realized_dependencies) ==
    {k \in DOMAIN realized_dependencies : k.type \notin {"int", "str"}}

StoreNothing(provider, cache, specification, instance) == cache

\* `if provider.scope is not None: provider.scope[specification] = instance`
Store(provider, cache, specification, instance) ==
    IF provider.scope # None
    THEN [cache EXCEPT ![provider.scope] = (specification :> instance) @@ @]
    ELSE cache

RaiseDiscards(rt, exception) ==
    [rt |-> [rt EXCEPT !.cache = [t \in DOMAIN rt.cache |-> <<>>]],
     raised |-> exception, value |-> NoValue, invoked |-> FALSE,
     args |-> <<>>, kwargs |-> <<>>]

\* An acquire() that raises: nothing is returned.
Raise(rt, exception) ==
    [rt |-> rt, raised |-> exception, value |-> NoValue, invoked |-> FALSE,
     args |-> <<>>, kwargs |-> <<>>]

NestedArgumentsInherited(realized_dependencies) ==
    [k \in {j \in DOMAIN realized_dependencies :
               realized_dependencies[j].kind = "given"} |->
        realized_dependencies[k]]

\* `self.acquire(dependency_specification)`: the nested call is given no
\* `arguments`, whatever the realized dependencies of the caller hold.
NestedArguments(realized_dependencies) == <<>>

RECURSIVE acquire(_, _, _, _, _)
RECURSIVE Realize(_, _, _, _, _, _)

\* The loop of acquire() over the provider's dependencies, from the i-th
\* item on.  rt is the state the nested calls change: the scope caches and
\* the counters of the user factories and the closures of the wrappers.
Realize(P, rt, specification, realized_dependencies, i, depth) ==
    LET dependencies == P[specification].dependencies
    IN  IF i > Len(dependencies)
        THEN [rt |-> rt, raised |-> "none",
              realized |-> realized_dependencies]
        ELSE
          LET argument == dependencies[i].argument
              dependency_specification == dependencies[i].dependency
          IN  IF ~NeedsInjection(argument, realized_dependencies)
              THEN Realize(P, rt, specification, realized_dependencies,
                           i + 1, depth)
              ELSE IF dependency_specification.factory
              THEN Realize(P, rt, specification,
                           (argument :> FactoryCallable(
                               dependency_specification.specification,
                               LoopVariableAtExit(dependencies)))
                             @@ realized_dependencies,
                           i + 1, depth)
              ELSE LET sub == acquire(P, rt,
                                      dependency_specification.specification,
                                      NestedArguments(realized_dependencies),
                                      depth + 1)
                   IN  IF sub.raised # "none"
                       THEN [rt |-> sub.rt, raised |-> sub.raised,
                             realized |-> realized_dependencies]
                       ELSE Realize(P, sub.rt, specification,
                                    (argument :> sub.value)
                                      @@ realized_dependencies,
                                    i + 1, depth)

\* Graph.acquire(specification, arguments) at nesting depth `depth`.  The
\* test `specification in provider.scope` raises TypeError when the scope
\* of the provider is a class, which has no __contains__.
acquire(P, rt, specification, arguments, depth) ==
    IF depth > MaxDepth
    THEN Raise(rt, "RecursionError")
    ELSE IF specification \notin DOMAIN P
    THEN Raise(rt, "KeyError")
    ELSE
      LET provider == P[specification]
      IN  IF IsClass(provider.scope)
          THEN Raise(rt, "TypeError")
          ELSE IF CacheHit(provider, rt.cache, specification)
          THEN [rt |-> rt, raised |-> "none",
                value |-> rt.cache[provider.scope][specification],
                invoked |-> FALSE, args |-> <<>>, kwargs |-> <<>>]
          ELSE
            LET r == Realize(P, rt, specification, arguments, 1, depth)
            IN  IF r.raised # "none"
                THEN Raise(r.rt, r.raised)
                ELSE IF InvalidKeys(r.realized) # {}
                THEN Raise(r.rt, "TypeError")
                ELSE IF provider.raises
                THEN Raise(r.rt, "ValueError")
                ELSE
                  LET args == Positional(r.realized)
                      kwargs == Keyword(r.realized)
                      call == Invoke(provider, specification, r.rt,
                                     args, kwargs)
                      stored == Store(provider, r.rt.cache, specification,
                                      call.value)
                  IN  [rt |-> [cache |-> stored, counter |-> call.counter,
                               wrappers |-> call.wrappers],
                       raised |-> "none", value |-> call.value,
                       invoked |-> TRUE, args |-> args, kwargs |-> kwargs]

GetArgumentsOneBased(args, kwargs) ==
    LET keys == {IntKey(i) : i \in 1..Len(args)}
                  \cup {StrKey(n) : n \in DOMAIN kwargs}
    IN  [k \in keys |-> IF k.type = "str" THEN kwargs[k.name]
                        ELSE args[k.index]]

\* dict(enumerate(args)) updated with kwargs, as Graph.get() builds it.
GetArguments(args, kwargs) ==
    LET keys == {IntKey(i - 1) : i \in 1..Len(args)}
                  \cup {StrKey(n) : n \in DOMAIN kwargs}
    IN  [k \in keys |-> IF k.type = "str" THEN kwargs[k.name]
                        ELSE args[k.index + 1]]

\* Graph.get(specification, *args, **kwargs)
get(P, rt, specification, args, kwargs) ==
    acquire(P, rt, specification, GetArguments(args, kwargs), 0)

\* A call _factory(*args, **kwargs) of an injected callable: it reads
\* dependency_specification.specification, which only a Factory has.
CallFactoryCallable(P, rt, callable, args, kwargs) ==
    IF callable.cell.factory
    THEN get(P, rt, callable.cell.specification, args, kwargs)
    ELSE Raise(rt, "AttributeError")

\* ------------------------------------------------------------------------
\* Scope objects (scopes.py)
\* ------------------------------------------------------------------------

\* The processes: the one that constructs the scope objects and a child it
\* forks.  os.getpid() of a process is its name here.
Processes == {"parent", "child"}

\* The threads of a process: its main thread and one it starts.
Threads == {"main", "thread"}

\* The scope objects constructed, by name, with the class of each.
ScopeClass ==
    [singleton |-> "SingletonScope",
     process |-> "ProcessScope",
     thread |-> "ThreadScope"]

ScopeObjects == DOMAIN ScopeClass

\* SingletonScope.__init__, ProcessScope.__init__, ThreadScope.__init__ run
\* in process pid: an empty _cache, the _pid of the constructing process
\* (ProcessScope only) and a threading.local() without attributes, here
\* the map from the threads that have a `cache` attribute to its value.
NewScope(class, pid) ==
    [class |-> class,
     _pid |-> IF class = "ProcessScope" THEN pid ELSE None,
     _cache |-> <<>>,
     _local |-> <<>>]

LocalOfAnyThread(t) == "main"

\* threading.local(): the attributes a thread reads and writes on it are
\* those of the calling thread.
LocalOf(t) == t

ValidateKeeps(scope, pid, t) ==
    IF scope.class = "ProcessScope"
    THEN [scope EXCEPT !._pid = pid]
    ELSE IF scope.class = "ThreadScope"
    THEN IF LocalOf(t) \notin DOMAIN scope._local
         THEN [scope EXCEPT !._local = (LocalOf(t) :> <<>>) @@ scope._local]
         ELSE scope
    ELSE scope

\* ProcessScope._validate and ThreadScope._validate, called in process pid
\* by thread t (SingletonScope has none): the first forgets the cache
\* when os.getpid() is not the remembered _pid, the second gives thread t
\* an empty cache when it has none.
_validate(scope, pid, t) ==
    IF scope.class = "ProcessScope"
    THEN IF scope._pid # pid
         THEN [scope EXCEPT !._pid = pid, !._cache = <<>>]
         ELSE scope
    ELSE IF scope.class = "ThreadScope"
    THEN IF LocalOf(t) \notin DOMAIN scope._local
         THEN [scope EXCEPT !._local = (LocalOf(t) :> <<>>) @@ scope._local]
         ELSE scope
    ELSE scope

\* The dictionary the operations of thread t work on after _validate:
\* self._local.cache of a ThreadScope, self._cache of the other two.
CacheOf(scope, t) ==
    IF scope.class = "ThreadScope"
    THEN scope._local[LocalOf(t)]
    ELSE scope._cache

\* __contains__(specification): the scope after the call and the answer.
__contains__(scope, pid, t, specification) ==
    LET valid == _validate(scope, pid, t)
    IN  [scope |-> valid,
         raised |-> "none",
         value |-> specification \in DOMAIN CacheOf(valid, t)]

\* __getitem__(specification): the scope after the call and the value, or
\* the KeyError of the dictionary.
__getitem__(scope, pid, t, specification) ==
    LET valid == _validate(scope, pid, t)
    IN  IF specification \in DOMAIN CacheOf(valid, t)
        THEN [scope |-> valid, raised |-> "none",
              value |-> CacheOf(valid, t)[specification]]
        ELSE [scope |-> valid, raised |-> "KeyError", value |-> NoValue]

SetItemForgets(scope, pid, t, specification, instance) ==
    LET valid == _validate(scope, pid, t)
        written == (specification :> instance)
    IN  [scope |-> IF valid.class = "ThreadScope"
                   THEN [valid EXCEPT !._local[LocalOf(t)] = written]
                   ELSE [valid EXCEPT !._cache = written],
         raised |-> "none",
         value |-> NoValue]

\* __setitem__(specification, instance): the scope after the call.
__setitem__(scope, pid, t, specification, instance) ==
    LET valid == _validate(scope, pid, t)
        written == (specification :> instance) @@ CacheOf(valid, t)
    IN  [scope |-> IF valid.class = "ThreadScope"
                   THEN [valid EXCEPT !._local[LocalOf(t)] = written]
                   ELSE [valid EXCEPT !._cache = written],
         raised |-> "none",
         value |-> NoValue]

\* The memory of the parent process once its main thread has constructed
\* the scope objects.
NewMemory ==
    "parent" :> [o \in ScopeObjects |-> NewScope(ScopeClass[o], "parent")]

\* os.fork() by thread t: the child's memory is a copy of the parent's in
\* which t is the only thread, so that only t's thread-local attributes
\* are left.
Forked(objects, t) ==
    [o \in DOMAIN objects |->
        [objects[o] EXCEPT
            !._local = [u \in DOMAIN objects[o]._local \cap {LocalOf(t)}
                          |-> objects[o]._local[u]]]]

\* A thread that is in no call of acquire() and has made none: the place
\* it is at and the local variables `specification`, `provider` and
\* `instance` of the call, with how the call ended once it has.
NoFrame ==
    [pc |-> "idle", specification |-> None, provider |-> None,
     instance |-> NoValue, invoked |-> FALSE, raised |-> "none"]

\* ------------------------------------------------------------------------
\* State
\* ------------------------------------------------------------------------

VARIABLES
    providers,  \* Graph.providers: specification -> provider
    order,      \* the iteration order of the keys of Graph.providers
    scopes,     \* Graph.scopes: scope type -> scope instance
    cache,      \* scope instance -> its _cache: specification -> instance
    counter,    \* specification -> calls made so far of its user factory
    wrappers,   \* the wrappers made, each with the list `args` and the
                \* dictionary `kwargs` it closes over
    held,       \* the injected callables of the object the caller got last
    serving,    \* registration has ended and resolution has begun
    result,     \* what the last operation was given and how it ended
    memory,     \* process -> scope object -> its attributes
    clock,      \* the number of values stored in scope objects so far
    threads     \* thread -> the call of acquire() it is in

vars ==
    <<providers, order, scopes, cache, counter, wrappers, held, serving,
      result, memory, clock, threads>>

\* The state that acquire() and the calls nested in it read and change.
Runtime == [cache |-> cache, counter |-> counter, wrappers |-> wrappers]

\* The scope types Graph.__init__ registers, each with one instance; the
\* instance is named after its type.
ScopeTypes == {"SingletonScope", "ProcessScope", "ThreadScope"}

NoResult ==
    [op |-> "none", specification |-> None, arguments |-> <<>>,
     get_args |-> <<>>, get_kwargs |-> <<>>,
     callable |-> NoValue, scope |-> None, raised |-> "none",
     scope_type |-> None, error |-> NoError,
     value |-> NoValue, invoked |-> FALSE, args |-> <<>>, kwargs |-> <<>>,
     process |-> None, thread |-> None]

\* Graph.__init__
Init ==
    /\ providers = <<>>
    /\ order = <<>>
    /\ scopes = [t \in ScopeTypes |-> t]
    /\ cache = [t \in ScopeTypes |-> <<>>]
    /\ counter = [S \in Specs |-> 0]
    /\ wrappers = <<>>
    /\ held = {}
    /\ serving = FALSE
    /\ result = NoResult
    /\ memory = NewMemory
    /\ clock = 0
    /\ threads = [t \in Threads |-> NoFrame]

\* ------------------------------------------------------------------------
\* Inputs
\* ------------------------------------------------------------------------

Entry(argument, dependency) ==
    [argument |-> argument, dependency |-> dependency]

\* The user factories the model registers: each is given by the
\* specification it is registered for and by its dependency map, listed in
\* the iteration order of the map.
Factories ==
    {<<"a", <<>>>>,
     <<"a", <<Entry(IntKey(0), Direct("b"))>>>>,
     <<"a", <<Entry(IntKey(0), Factory("b"))>>>>,
     <<"a", <<Entry(IntKey(0), Factory("b")),
              Entry(StrKey("k"), Factory("c"))>>>>,
     <<"a", <<Entry(IntKey(0), Factory("b")),
              Entry(StrKey("k"), Direct("c"))>>>>,
     <<"a", <<Entry(IntKey(0), Direct("c")),
              Entry(StrKey("k"), Factory("b"))>>>>,
     <<"b", <<>>>>,
     <<"b", <<Entry(StrKey("k"), Direct("c"))>>>>,
     <<"c", <<>>>>}

\* The scope arguments of register_factory().
ScopeChoices == {None, "SingletonScope"}

\* The specifications given to register_instance(), with the instance.
Instances == {<<"b", Instance(42)>>, <<"c", Instance(7)>>}

\* The `arguments` dictionaries given to acquire().
Overrides ==
    {<<>>, IntKey(0) :> Given(1), StrKey("k") :> Given(1)}

\* The positional arguments given to get() and to an injected callable.
CallArgs == {<<>>}

\* ------------------------------------------------------------------------
\* Operations
\* ------------------------------------------------------------------------

\* self.providers[specification] = provider: a new key goes last, a key
\* already there keeps its place.
SetProvider(specification, provider) ==
    /\ providers' = (specification :> provider) @@ providers
    /\ order' = IF specification \in DOMAIN providers THEN order
                ELSE Append(order, specification)

\* Graph.register_factory(specification, factory, scope)
RegisterFactory(specification, dependencies, scope) ==
    /\ IF scope # None /\ scope \notin DOMAIN scopes
       THEN /\ UNCHANGED <<providers, order>>
            /\ result' = [NoResult EXCEPT !.op = "register_factory",
                                          !.specification = specification,
                                          !.scope = scope,
                                          !.raised = "UnknownScopeError",
                                          !.scope_type = scope]
       ELSE /\ SetProvider(specification,
                           FactoryProvider(dependencies,
                                           IF scope = None THEN None
                                           ELSE scopes[scope]))
            /\ result' = [NoResult EXCEPT !.op = "register_factory",
                                          !.specification = specification,
                                          !.scope = scope]
    /\ UNCHANGED <<scopes, cache, counter, wrappers, held, serving,
                   memory, clock, threads>>

\* Graph.register_instance(specification, instance)
RegisterInstance(specification, instance) ==
    /\ SetProvider(specification, InstanceProvider(instance))
    /\ result' = [NoResult EXCEPT !.op = "register_instance",
                                  !.specification = specification]
    /\ UNCHANGED <<scopes, cache, counter, wrappers, held, serving,
                   memory, clock, threads>>

\* Graph.register_provider(specification, provider)
RegisterProvider(specification, provider) ==
    /\ SetProvider(specification, provider)
    /\ result' = [NoResult EXCEPT !.op = "register_provider",
                                  !.specification = specification]
    /\ UNCHANGED <<scopes, cache, counter, wrappers, held, serving,
                   memory, clock, threads>>

UnregisterProviderKeeps(specification) ==
    /\ result' = [NoResult EXCEPT !.op = "unregister_provider",
                                  !.specification = specification,
                                  !.raised =
                                     IF specification \in DOMAIN providers
                                     THEN "none" ELSE "KeyError"]
    /\ UNCHANGED <<providers, order, scopes, cache, counter, wrappers, held,
                   serving,
                   memory, clock, threads>>

\* Graph.unregister_provider(specification): `del` raises KeyError when the
\* specification has no provider.  The scopes keep what they hold.
UnregisterProvider(specification) ==
    /\ IF specification \notin DOMAIN providers
       THEN /\ UNCHANGED <<providers, order>>
            /\ result' = [NoResult EXCEPT !.op = "unregister_provider",
                                          !.specification = specification,
                                          !.raised = "KeyError"]
       ELSE /\ providers' = [S \in DOMAIN providers \ {specification} |->
                               providers[S]]
            /\ order' = SelectSeq(order, LAMBDA S : S # specification)
            /\ result' = [NoResult EXCEPT !.op = "unregister_provider",
                                          !.specification = specification]
    /\ UNCHANGED <<scopes, cache, counter, wrappers, held, serving,
                   memory, clock, threads>>

RegisterFunctionUnchecked(specification, dependencies, scope) ==
    /\ result' = [NoResult EXCEPT !.op = "register_function",
                                  !.specification = specification,
                                  !.scope = scope,
                                  !.raised = "TypeError"]
    /\ UNCHANGED <<providers, order, scopes, cache, counter, wrappers, held,
                   serving,
                   memory, clock, threads>>

\* Graph.register_function(specification, function, scope): after the
\* lookup of the scope it calls FunctionProvider(function, scope=scope),
\* and FunctionProvider.__init__(self, function) takes no `scope`: the call
\* raises TypeError before register_provider() is reached.
RegisterFunction(specification, dependencies, scope) ==
    /\ IF scope # None /\ scope \notin DOMAIN scopes
       THEN result' = [NoResult EXCEPT !.op = "register_function",
                                       !.specification = specification,
                                       !.scope = scope,
                                       !.raised = "UnknownScopeError",
                                       !.scope_type = scope]
       ELSE result' = [NoResult EXCEPT !.op = "register_function",
                                       !.specification = specification,
                                       !.scope = scope,
                                       !.raised = "TypeError"]
    /\ UNCHANGED <<providers, order, scopes, cache, counter, wrappers, held,
                   serving,
                   memory, clock, threads>>

\* Graph.register_scope(scope_type, instance): a scope instance new to the
\* model starts with an empty cache.
RegisterScope(scope_type, instance) ==
    /\ scopes' = (scope_type :> instance) @@ scopes
    /\ cache' = IF instance \in DOMAIN cache THEN cache
                ELSE (instance :> <<>>) @@ cache
    /\ result' = [NoResult EXCEPT !.op = "register_scope",
                                  !.scope = scope_type]
    /\ UNCHANGED <<providers, order, counter, wrappers, held, serving,
                   memory, clock, threads>>

\* Graph.unregister_scope(scope_type): `del` raises KeyError when the type
\* is not registered.  Providers keep the scope instance they were given.
UnregisterScope(scope_type) ==
    /\ IF scope_type \notin DOMAIN scopes
       THEN /\ UNCHANGED scopes
            /\ result' = [NoResult EXCEPT !.op = "unregister_scope",
                                          !.scope = scope_type,
                                          !.raised = "KeyError"]
       ELSE /\ scopes' = [t \in DOMAIN scopes \ {scope_type} |-> scopes[t]]
            /\ result' = [NoResult EXCEPT !.op = "unregister_scope",
                                          !.scope = scope_type]
    /\ UNCHANGED <<providers, order, cache, counter, wrappers, held, serving,
                   memory, clock, threads>>

\* The injected callables an object was built with.
Callables(value) ==
    {c \in {value.args[i] : i \in DOMAIN value.args}
             \cup {value.kwargs[n] : n \in DOMAIN value.kwargs} :
        c.kind = "callable"}

\* The sum of the counters of the user factories.
Calls(c) == c["a"] + c["b"] + c["c"]

\* What the caller of acquire()/get()/an injected callable observes.
Outcome(op, specification, arguments, callable, r) ==
    [NoResult EXCEPT !.op = op, !.specification = specification,
                     !.arguments = arguments, !.callable = callable,
                     !.raised = r.raised, !.value = r.value,
                     !.invoked = r.invoked, !.args = r.args,
                     !.kwargs = r.kwargs]

\* The effects of a finished acquire()/get()/injected call on the state.
Effects(r) ==
    /\ Calls(r.rt.counter) <= MaxCalls
    /\ Len(r.rt.wrappers) <= MaxWrappers
    /\ r.raised = "RecursionError" => r.rt = Runtime
    /\ cache' = r.rt.cache
    /\ counter' = r.rt.counter
    /\ wrappers' = r.rt.wrappers
    /\ serving' = TRUE
    /\ UNCHANGED <<providers, order, scopes,
                   memory, clock, threads>>

\* A finished acquire()/get()/injected call: its effects and its outcome.
Finish(op, specification, arguments, callable, r) ==
    /\ Effects(r)
    /\ result' = Outcome(op, specification, arguments, callable, r)

\* Graph.acquire(specification, arguments)
Acquire(specification, arguments) ==
    LET r == acquire(providers, Runtime, specification, arguments, 0)
    IN  /\ Finish("acquire", specification, arguments, NoValue, r)
        /\ held' = IF r.raised = "none" THEN Callables(r.value) ELSE held

\* Graph.get(specification, *args, **kwargs)
Get(specification, args, kwargs) ==
    LET r == get(providers, Runtime, specification, args, kwargs)
    IN  /\ Effects(r)
        /\ result' = [Outcome("get", specification,
                              GetArguments(args, kwargs), NoValue, r)
                        EXCEPT !.get_args = args, !.get_kwargs = kwargs]
        /\ held' = IF r.raised = "none" THEN Callables(r.value) ELSE held

\* A call callable(*args) of a callable that acquire() injected into the
\* held object.  The result names the specification the call handed to
\* get(), None when it handed none.
CallInjected(callable, args) ==
    LET r == CallFactoryCallable(providers, Runtime, callable, args, <<>>)
    IN  /\ Finish("call",
                  IF callable.cell.factory THEN callable.cell.specification
                  ELSE None,
                  GetArguments(args, <<>>), callable, r)
        /\ UNCHANGED held

\* `args[:len(call_args)] = call_args` on the list the wrapper holds.
SliceAssign(args, call_args) ==
    call_args \o SubSeq(args, Len(call_args) + 1, Len(args))

\* `kwargs.update(call_kwargs)` on the dictionary the wrapper holds.
Update(kwargs, call_kwargs) ==
    [n \in DOMAIN kwargs \cup DOMAIN call_kwargs |->
        IF n \in DOMAIN call_kwargs THEN call_kwargs[n] ELSE kwargs[n]]

\* A call wrapper(*call_args, **call_kwargs) of the n-th wrapper made
\* (providers.py:114-117): it writes the call's arguments into the list and
\* the dictionary it closes over, which keep them, and calls the function
\* with the two.
CallWrapper(n, call_args, call_kwargs) ==
    LET args == SliceAssign(wrappers[n].args, call_args)
        kwargs == Update(wrappers[n].kwargs, call_kwargs)
    IN  /\ wrappers' = [wrappers EXCEPT ![n].args = args,
                                        ![n].kwargs = kwargs]
        /\ result' = [NoResult EXCEPT
                        !.op = "call_wrapper",
                        !.specification = wrappers[n].wrapper.specification,
                        !.callable = wrappers[n].wrapper,
                        !.get_args = call_args,
                        !.get_kwargs = call_kwargs,
                        !.value = Returned(
                                    wrappers[n].wrapper.specification,
                                    args, kwargs),
                        !.invoked = TRUE,
                        !.args = args,
                        !.kwargs = kwargs]
        /\ UNCHANGED <<providers, order, scopes, cache, counter, held,
                       serving,
                       memory, clock, threads>>

ValidateForgets ==
    /\ result' = [NoResult EXCEPT !.op = "validate",
                                  !.error = validate(providers, order)]
    /\ cache' = [t \in DOMAIN cache |-> <<>>]
    /\ UNCHANGED <<providers, order, scopes, counter, wrappers, held,
                   serving, memory, clock, threads>>

\* Graph.validate()
Validate ==
    /\ result' = [NoResult EXCEPT !.op = "validate",
                                  !.error = validate(providers, order)]
    /\ UNCHANGED <<providers, order, scopes, cache, counter, wrappers, held,
                   serving,
                   memory, clock, threads>>

\* The graph is built first and serves afterwards (spec.md, control flow):
\* no registration follows the first resolution.
Next ==
    \/ /\ ~serving
       /\ \E f \in Factories, scope \in ScopeChoices :
             RegisterFactory(f[1], f[2], scope)
    \/ /\ ~serving
       /\ \E i \in Instances : RegisterInstance(i[1], i[2])
    \/ \E S \in Specs, arguments \in Overrides : Acquire(S, arguments)
    \/ \E S \in Specs, args \in CallArgs : Get(S, args, <<>>)
    \/ \E callable \in held, args \in CallArgs :
          CallInjected(callable, args)
    \/ Validate

Spec == Init /\ [][Next]_vars

\* ------------------------------------------------------------------------
\* validate() as a function of the provider map
\* ------------------------------------------------------------------------

\* The sequences that hold every element of the set R once: the iteration
\* orders of a dictionary whose keys are R.
Orders(R) ==
    {o \in [1..Cardinality(R) -> R] : \A S \in R : InList(o, S)}

\* The dependency map a factory declares with @inject(t1, ..., tn): the
\* positional slot i - 1 depends on targets[i], through a Factory when the
\* target is in `wrapped`.
InjectedPositionally(targets, wrapped) ==
    [i \in 1..Len(targets) |->
        Entry(IntKey(i - 1),
              IF targets[i] \in wrapped THEN Factory(targets[i])
              ELSE Direct(targets[i]))]

\* A graph after any registrations: every subset of the specifications is
\* registered, in every order, with every dependency map of at most
\* MaxEdges edges in all.
InitValidate ==
    /\ \E R \in SUBSET Specs, wrapped \in SUBSET Specs :
         \E la \in 0..MaxEdges :
           \E lb \in 0..(MaxEdges - la) :
             \E lc \in 0..(MaxEdges - la - lb) :
               \E da \in [1..la -> Specs], db \in [1..lb -> Specs],
                  dc \in [1..lc -> Specs] :
                 LET targets == [S \in Specs |->
                                   IF S = "a" THEN da
                                   ELSE IF S = "b" THEN db ELSE dc]
                 IN  /\ \A S \in Specs \ R : targets[S] = <<>>
                     /\ providers =
                          [S \in R |->
                             FactoryProvider(
                               InjectedPositionally(targets[S], wrapped),
                               None)]
                     /\ order \in Orders(R)
    /\ scopes = [t \in ScopeTypes |-> t]
    /\ cache = [t \in ScopeTypes |-> <<>>]
    /\ counter = [S \in Specs |-> 0]
    /\ wrappers = <<>>
    /\ held = {}
    /\ serving = FALSE
    /\ result = NoResult
    /\ memory = NewMemory
    /\ clock = 0
    /\ threads = [t \in Threads |-> NoFrame]

NextValidate == Validate

SpecValidate == InitValidate /\ [][NextValidate]_vars

\* ------------------------------------------------------------------------
\* The depends-on graph, defined without the traversal of validate()
\* ------------------------------------------------------------------------

\* The provider of S declares a dependency on T, directly or through a
\* Factory.
DependsOn(P, S, T) ==
    /\ S \in DOMAIN P
    /\ \E i \in 1..Len(P[S].dependencies) :
          P[S].dependencies[i].dependency.specification = T

\* The pairs <<dependant, dependency>> whose dependency is not registered.
MissingEdges(P) ==
    {e \in (DOMAIN P) \X Specs : DependsOn(P, e[1], e[2]) /\ e[2] \notin DOMAIN P}

\* The specifications whose provider depends on its own specification.
SelfDependent(P) == {S \in DOMAIN P : DependsOn(P, S, S)}

\* The registered specifications one edge away from a specification of X.
Successors(P, X) == {T \in DOMAIN P : \E S \in X : DependsOn(P, S, T)}

RECURSIVE Closure(_, _, _)
Closure(P, X, n) ==
    IF n = 0 THEN X ELSE Closure(P, X \cup Successors(P, X), n - 1)

\* The registered specifications that S reaches by one edge or more.
Reachable(P, S) == Closure(P, Successors(P, {S}), Cardinality(Specs))

\* The strongly connected component of S.
Component(P, S) == {S} \cup {T \in Reachable(P, S) : S \in Reachable(P, T)}

\* A cycle through two or more specifications.
HasCycle(P) == \E S \in DOMAIN P : Cardinality(Component(P, S)) > 1

\* The elements of a tuple.
Elements(seq) == {seq[i] : i \in 1..Len(seq)}

ValidationErrors ==
    {"MissingDependencyError", "SelfDependencyError", "DependencyCycleError"}

\* ------------------------------------------------------------------------
\* Claims about validate() (checked under SpecValidate)
\* ------------------------------------------------------------------------

\* C6: validate() returns without raising if and only if every dependency
\* of every registered provider is registered, no provider depends on its
\* own specification and the depends-on graph has no cycle; otherwise it
\* raises one of the three validation errors.
C6_ValidateAcceptsExactlySoundGraphs ==
    result.op = "validate" =>
        /\ result.error.type \in ValidationErrors \cup {"none"}
        /\ result.error.type = "none" <=>
              /\ MissingEdges(providers) = {}
              /\ SelfDependent(providers) = {}
              /\ ~HasCycle(providers)

\* validate() has accepted a graph of three providers chained by
\* dependencies, one of them through a Factory.
C6_Witness ==
    /\ result.op = "validate"
    /\ result.error.type = "none"
    /\ \E S, T, U \in DOMAIN providers :
          /\ Cardinality({S, T, U}) = 3
          /\ DependsOn(providers, S, T)
          /\ DependsOn(providers, T, U)
          /\ \E i \in 1..Len(providers[S].dependencies) :
                providers[S].dependencies[i].dependency.factory

\* The self-dependency of S is the only defect of the graph.
OnlySelfDependency(P, S) ==
    /\ SelfDependent(P) = {S}
    /\ MissingEdges(P) = {}
    /\ ~HasCycle(P)

\* C7 as stated: whenever a provider depends on its own specification,
\* validate() raises SelfDependencyError naming that specification.
C7_Original ==
    result.op = "validate" =>
        \A S \in SelfDependent(providers) :
            /\ result.error.type = "SelfDependencyError"
            /\ result.error.specification = S

\* C7 as amended: when a provider depends on its own specification S,
\* validate() ends by raising a validation error; a SelfDependencyError it
\* raises names a self-dependent specification; and it is the
\* SelfDependencyError of S when that self-dependency is the only defect of
\* the graph.
C7_SelfDependencyDetected ==
    result.op = "validate" =>
        \A S \in SelfDependent(providers) :
            /\ result.error.type \in ValidationErrors
            /\ result.error.type = "SelfDependencyError" =>
                  result.error.specification \in SelfDependent(providers)
            /\ OnlySelfDependency(providers, S) =>
                  /\ result.error.type = "SelfDependencyError"
                  /\ result.error.specification = S

\* validate() has raised SelfDependencyError for a provider that depends on
\* itself through a Factory, in a graph with a second, sound provider.
C7_Witness ==
    /\ result.op = "validate"
    /\ result.error.type = "SelfDependencyError"
    /\ OnlySelfDependency(providers, result.error.specification)
    /\ Cardinality(DOMAIN providers) > 1
    /\ \E i \in 1..Len(providers[result.error.specification].dependencies) :
          providers[result.error.specification].dependencies[i].dependency
             = Factory(result.error.specification)

\* C9: in a graph with no missing dependency and no self-dependency, the
\* specifications in the cycle of a DependencyCycleError are exactly one
\* strongly connected component of two or more specifications.
C9_CycleIsOneComponent ==
    ( /\ result.op = "validate"
      /\ result.error.type = "DependencyCycleError"
      /\ MissingEdges(providers) = {}
      /\ SelfDependent(providers) = {} ) =>
        LET cycle == Elements(result.error.cycle)
        IN  /\ Cardinality(cycle) >= 2
            /\ Len(result.error.cycle) = Cardinality(cycle)
            /\ \A S \in cycle : Component(providers, S) = cycle

\* validate() has reported a component of two specifications that a third,
\* registered before them, depends on and that is not the whole graph.
C9_Witness ==
    /\ result.op = "validate"
    /\ result.error.type = "DependencyCycleError"
    /\ MissingEdges(providers) = {}
    /\ SelfDependent(providers) = {}
    /\ Len(result.error.cycle) = 2
    /\ Cardinality(DOMAIN providers) = 3
    /\ order[1] \notin Elements(result.error.cycle)
    /\ \E T \in Elements(result.error.cycle) :
          DependsOn(providers, order[1], T)

\* C10 as stated: in the cycle of a DependencyCycleError each element
\* depends on the previous one and the first depends on the last.
C10_CycleOrder ==
    ( /\ result.op = "validate"
      /\ result.error.type = "DependencyCycleError" ) =>
        LET cycle == result.error.cycle
        IN  /\ \A i \in 2..Len(cycle) :
                  DependsOn(providers, cycle[i], cycle[i - 1])
            /\ DependsOn(providers, cycle[1], cycle[Len(cycle)])

\* ------------------------------------------------------------------------
\* Claims about acquire(), get() and the injected callables (under Spec)
\* ------------------------------------------------------------------------

\* The operations that run acquire() for result.specification.
AcquireOps == {"acquire", "get", "call"}

\* The argument keys of the call the provider of S receives when acquire()
\* is given `arguments`: the keys given and the keys of the dependencies.
RealizedKeys(P, S, arguments) ==
    DOMAIN arguments
      \cup {P[S].dependencies[i].argument : i \in 1..Len(P[S].dependencies)}

\* The value a provider call (*args, **kwargs) received for the key k.
ReceivedFor(k, keys, args, kwargs) ==
    IF k.type = "str" THEN kwargs[k.name]
    ELSE args[1 + Cardinality({j \in keys :
                                  j.type = "int" /\ j.index < k.index})]

\* The scope of the provider of S holds an instance for S.
Cached(S) ==
    /\ S \in DOMAIN providers
    /\ providers[S].scope # None
    /\ S \in DOMAIN cache[providers[S].scope]

\* C1, on one step: a get/acquire of S that returns gives the cached
\* instance without a call of the provider when the scope of the provider
\* holds one; it calls the provider and stores the new instance when the
\* provider is scoped and the scope holds none; it calls the provider and
\* gives the fresh result when the provider has no scope.
C1_Step(S) ==
    ( /\ result'.op \in AcquireOps
      /\ result'.specification = S
      /\ result'.raised = "none" ) =>
        IF providers[S].scope # None
        THEN IF Cached(S)
             THEN /\ result'.value = cache[providers[S].scope][S]
                  /\ ~result'.invoked
                  /\ counter' = counter
             ELSE /\ result'.invoked
                  /\ cache'[providers[S].scope][S] = result'.value
                  /\ providers[S].kind = "FactoryProvider" =>
                        counter'[S] = counter[S] + 1
        ELSE /\ result'.invoked
             /\ providers[S].kind = "FactoryProvider" =>
                   /\ counter'[S] = counter[S] + 1
                   /\ result'.value.kind = "object"
                   /\ result'.value.specification = S
                   /\ result'.value.id = counter'[S]
             /\ providers[S].kind = "InstanceProvider" =>
                   result'.value = providers[S].instance

\* C1: under a caching scope every get(spec) after the first returns the
\* instance of the first and the provider is called once in all (an
\* instance, once stored, is never replaced, and the factory of a scoped
\* provider has run once exactly when its scope holds the instance); with
\* no scope every get(spec) calls the provider again and returns the fresh
\* result.
C1_ScopedOnceUnscopedFresh ==
    /\ [][\A S \in DOMAIN providers : C1_Step(S)]_vars
    /\ [][\A t \in DOMAIN cache : \A S \in DOMAIN cache[t] :
            /\ S \in DOMAIN cache'[t]
            /\ cache'[t][S] = cache[t][S]]_vars
    /\ [](\A S \in DOMAIN providers :
            (providers[S].scope # None
               /\ providers[S].kind = "FactoryProvider") =>
                /\ counter[S] <= 1
                /\ counter[S] = 1 <=> Cached(S))

\* A second get() of a scoped specification has returned the instance of
\* the first one, after a provider without scope has been called too.
C1_Witness ==
    /\ result.op = "get"
    /\ result.raised = "none"
    /\ ~result.invoked
    /\ Cached(result.specification)
    /\ result.value = cache[providers[result.specification].scope]
                           [result.specification]
    /\ counter[result.specification] = 1
    /\ \E T \in DOMAIN providers :
          /\ providers[T].scope = None
          /\ providers[T].kind = "FactoryProvider"
          /\ counter[T] = 1

\* C2: an acquire of a specification that the scope of its provider already
\* holds returns the cached value and changes nothing: no provider is
\* called (no counter moves), no scope cache changes, the graph is as it
\* was.
C2_CacheHitChangesNothing ==
    [][\A S \in DOMAIN providers :
         ( /\ result'.op \in AcquireOps
           /\ result'.specification = S
           /\ providers[S].scope # None
           /\ S \in DOMAIN cache[providers[S].scope] ) =>
             /\ result'.raised = "none"
             /\ result'.value = cache[providers[S].scope][S]
             /\ ~result'.invoked
             /\ cache' = cache
             /\ counter' = counter
             /\ providers' = providers
             /\ order' = order
             /\ scopes' = scopes]_vars

\* An acquire with overrides has hit the cache of a provider that declares
\* a direct dependency which no scope holds and whose factory never ran.
C2_Witness ==
    /\ result.op = "acquire"
    /\ result.arguments # <<>>
    /\ result.raised = "none"
    /\ ~result.invoked
    /\ Cached(result.specification)
    /\ \E i \in 1..Len(providers[result.specification].dependencies) :
          LET d == providers[result.specification].dependencies[i].dependency
          IN  /\ ~d.factory
              /\ d.specification \in DOMAIN providers
              /\ providers[d.specification].kind = "FactoryProvider"
              /\ counter[d.specification] = 0

\* C3 as stated: acquire(spec, {k: v}) always uses v for k, whatever the
\* scope of the provider holds: an acquire that returns has called the
\* provider with v under k.
C3_Original ==
    ( /\ result.op = "acquire"
      /\ result.raised = "none" ) =>
        \A k \in DOMAIN result.arguments :
            /\ result.invoked
            /\ ReceivedFor(k,
                           RealizedKeys(providers, result.specification,
                                        result.arguments),
                           result.args, result.kwargs)
                 = result.arguments[k]

\* C3 as amended: an acquire(spec, {k: v}) that returns has called the
\* provider with v under k, also when the provider declares a dependency
\* for k, unless the scope of the provider already held spec; then the
\* provider is not called and the cached instance is returned.
C3_OverridePrecedence ==
    [][\A S \in DOMAIN providers :
         ( /\ result'.op \in {"acquire", "get"}
           /\ result'.specification = S
           /\ result'.raised = "none" ) =>
             IF Cached(S)
             THEN /\ ~result'.invoked
                  /\ result'.value = cache[providers[S].scope][S]
             ELSE /\ result'.invoked
                  /\ \A k \in DOMAIN result'.arguments :
                        ReceivedFor(k,
                                    RealizedKeys(providers, S,
                                                 result'.arguments),
                                    result'.args, result'.kwargs)
                          = result'.arguments[k]]_vars

\* A scoped provider that declares a registered dependency for a key has
\* been called with the value the caller gave for that key.
C3_Witness ==
    /\ result.op = "acquire"
    /\ result.raised = "none"
    /\ result.invoked
    /\ providers[result.specification].scope # None
    /\ \E i \in 1..Len(providers[result.specification].dependencies) :
          LET e == providers[result.specification].dependencies[i]
          IN  /\ e.argument \in DOMAIN result.arguments
              /\ ~e.dependency.factory
              /\ e.dependency.specification \in DOMAIN providers
              /\ ReceivedFor(e.argument,
                             RealizedKeys(providers, result.specification,
                                          result.arguments),
                             result.args, result.kwargs)
                   = result.arguments[e.argument]

\* The specifications that acquire(D) resolves eagerly: those D reaches
\* through dependencies that are not wrapped in a Factory.
RECURSIVE EagerClosure(_, _, _)
EagerClosure(P, X, n) ==
    IF n = 0 THEN X
    ELSE EagerClosure(
           P,
           X \cup {T \in Specs : \E S \in X \cap DOMAIN P :
                      \E i \in 1..Len(P[S].dependencies) :
                         P[S].dependencies[i].dependency = Direct(T)},
           n - 1)

Eager(P, D) == EagerClosure(P, {D}, Cardinality(Specs)) \ {D}

\* C4 as stated, on one step.  Laziness: an acquire of D that calls the
\* provider of D injects a callable for each entry Factory(S) it fills, and
\* neither calls the provider of S nor stores S in a scope unless D also
\* depends on S eagerly.  Calls: a call of the callable injected for
\* Factory(S) is a get(S): it calls a provider of S that has no scope and
\* returns the new instance (1, 2, 3, ...), and it returns the one instance
\* of a scoped provider of S, which has been called once.
C4_Step ==
    /\ ( /\ result'.op \in {"acquire", "get"}
         /\ result'.invoked ) =>
           LET D == result'.specification
           IN  \A i \in 1..Len(providers[D].dependencies) :
                 LET e == providers[D].dependencies[i]
                     S == e.dependency.specification
                 IN  ( /\ e.dependency.factory
                       /\ e.argument \notin DOMAIN result'.arguments ) =>
                         /\ ReceivedFor(e.argument,
                                        RealizedKeys(providers, D,
                                                     result'.arguments),
                                        result'.args, result'.kwargs).kind
                              = "callable"
                         /\ S \notin Eager(providers, D) /\ S # D =>
                              /\ counter'[S] = counter[S]
                              /\ \A t \in DOMAIN cache :
                                    S \in DOMAIN cache'[t] =>
                                       S \in DOMAIN cache[t]
    /\ result'.op = "call" =>
           LET S == result'.callable.specification
           IN  ( /\ S \in DOMAIN providers
                 /\ providers[S].kind = "FactoryProvider"
                 /\ providers[S].dependencies = <<>> ) =>
                   IF providers[S].scope = None
                   THEN /\ counter'[S] = counter[S] + 1
                        /\ result'.value.kind = "object"
                        /\ result'.value.specification = S
                        /\ result'.value.id = counter'[S]
                   ELSE /\ counter'[S] = 1
                        /\ result'.value.kind = "object"
                        /\ result'.value.specification = S
                        /\ result'.value.id = 1

\* C4 as stated: a Factory(S) dependency is not resolved while the
\* dependent is acquired, and every call of the injected callable performs
\* its own get(S).
C4_FactoryLaziness == [][C4_Step]_vars

\* C5 as stated: the callable injected for the entry Factory(S) performs
\* get(S) for the S of its own entry, whatever the other entries of the
\* dependency map are.
C5_CallableResolvesItsOwnEntry ==
    result.op = "call" =>
        /\ result.raised # "AttributeError"
        /\ result.specification = result.callable.specification

\* The graph has no missing dependency, no self-dependency and no cycle.
Sound(P) ==
    /\ MissingEdges(P) = {}
    /\ SelfDependent(P) = {}
    /\ ~HasCycle(P)

\* C8 as stated: whenever a provider P depends on an unregistered X,
\* validate() raises MissingDependencyError(dependant = P, dependency = X).
C8_Original ==
    result.op = "validate" =>
        \A e \in MissingEdges(providers) :
            /\ result.error.type = "MissingDependencyError"
            /\ result.error.dependant = e[1]
            /\ result.error.dependency = e[2]

\* C8 as amended.  validate() on a graph with a missing dependency raises a
\* validation error, and a MissingDependencyError it raises names a missing
\* dependency and its dependant; it names P and X when P's dependency on
\* the unregistered X is the only defect; validate() returns on a graph
\* without defect; and there a get(P) that does not find P in the scope of
\* its provider calls the provider with the registered instance for every
\* argument that depends directly on a specification registered with
\* register_instance().
C8_MissingDependency ==
    /\ [](result.op = "validate" =>
            /\ MissingEdges(providers) # {} =>
                  /\ result.error.type \in ValidationErrors
                  /\ result.error.type = "MissingDependencyError" =>
                        <<result.error.dependant, result.error.dependency>>
                           \in MissingEdges(providers)
            /\ \A e \in MissingEdges(providers) :
                  ( /\ MissingEdges(providers) = {e}
                    /\ SelfDependent(providers) = {}
                    /\ ~HasCycle(providers) ) =>
                      /\ result.error.type = "MissingDependencyError"
                      /\ result.error.dependant = e[1]
                      /\ result.error.dependency = e[2]
            /\ Sound(providers) => result.error.type = "none")
    /\ [][\A P \in DOMAIN providers :
            ( /\ result'.op = "get"
              /\ result'.specification = P
              /\ result'.arguments = <<>>
              /\ Sound(providers)
              /\ providers[P].kind = "FactoryProvider"
              /\ ~Cached(P) ) =>
                /\ result'.raised = "none"
                /\ result'.invoked
                /\ \A i \in 1..Len(providers[P].dependencies) :
                      LET e == providers[P].dependencies[i]
                          X == e.dependency.specification
                      IN  ( /\ ~e.dependency.factory
                            /\ providers[X].kind = "InstanceProvider" ) =>
                              ReceivedFor(e.argument,
                                          RealizedKeys(providers, P, <<>>),
                                          result'.args, result'.kwargs)
                                = providers[X].instance]_vars

\* validate() has raised MissingDependencyError for the only defect of a
\* graph of two providers or more.
C8_Witness ==
    /\ result.op = "validate"
    /\ result.error.type = "MissingDependencyError"
    /\ MissingEdges(providers)
         = {<<result.error.dependant, result.error.dependency>>}
    /\ Cardinality(DOMAIN providers) >= 2

\* ------------------------------------------------------------------------
\* Factory requests in validate() (checked under SpecValidate)
\* ------------------------------------------------------------------------

\* The provider map with every Factory(S) dependency replaced by the direct
\* dependency S.
Unwrapped(P) ==
    [S \in DOMAIN P |->
        [P[S] EXCEPT !.dependencies =
            [i \in 1..Len(P[S].dependencies) |->
                Entry(P[S].dependencies[i].argument,
                      Direct(P[S].dependencies[i].dependency.specification))]]]

\* The strongly connected components of two or more specifications.
Cycles(P) ==
    {Component(P, S) : S \in {T \in DOMAIN P :
                                Cardinality(Component(P, T)) > 1}}

\* A's dependency map holds Factory(B) and B depends directly on A.
FactoryCycle(P, A, B) ==
    /\ A \in DOMAIN P
    /\ B \in DOMAIN P
    /\ A # B
    /\ \E i \in 1..Len(P[A].dependencies) :
          P[A].dependencies[i].dependency = Factory(B)
    /\ \E i \in 1..Len(P[B].dependencies) :
          P[B].dependencies[i].dependency = Direct(A)

\* C11: a cycle that runs through a Factory request is rejected: when A's
\* dependency map holds Factory(B) and B depends directly on A, validate()
\* on a graph without missing dependency and self-dependency raises
\* DependencyCycleError, for the component of A and B when the graph has no
\* other cycle; and validate() raises on every graph what it raises when
\* each Factory(S) is replaced by the direct dependency S.
C11_FactoryCycleRejected ==
    result.op = "validate" =>
        /\ result.error = validate(Unwrapped(providers), order)
        /\ \A A, B \in Specs :
              ( /\ FactoryCycle(providers, A, B)
                /\ MissingEdges(providers) = {}
                /\ SelfDependent(providers) = {} ) =>
                  /\ result.error.type = "DependencyCycleError"
                  /\ {A, B} \subseteq Component(providers, A)
                  /\ Cycles(providers) = {Component(providers, A)} =>
                        Elements(result.error.cycle)
                          = Component(providers, A)

\* validate() has raised DependencyCycleError for the two specifications of
\* a cycle whose only edge from A to B is a Factory request, in a graph
\* with a third provider.
C11_Witness ==
    /\ result.op = "validate"
    /\ result.error.type = "DependencyCycleError"
    /\ Cardinality(DOMAIN providers) = 3
    /\ \E A, B \in Specs :
          /\ FactoryCycle(providers, A, B)
          /\ Elements(result.error.cycle) = {A, B}
          /\ \A i \in 1..Len(providers[A].dependencies) :
                providers[A].dependencies[i].dependency # Direct(B)

\* ------------------------------------------------------------------------
\* Scopes of the graph and registration (SpecScopes)
\* ------------------------------------------------------------------------

\* The scope types given to register_scope(), unregister_scope() and, as
\* `scope`, to register_factory() and register_function(): two types that
\* Graph.__init__ registers and the FooBarScope of test_unknown_scope.
ScopeTags == {"SingletonScope", "ProcessScope", "FooBarScope"}

\* The factories and functions registered with a scope.
ScopedFactories ==
    {<<"a", <<>>>>, <<"b", <<Entry(StrKey("k"), Direct("c"))>>>>}

NextScopes ==
    \/ \E t \in ScopeTags : RegisterScope(t, t)
    \/ \E t \in ScopeTags : UnregisterScope(t)
    \/ \E f \in ScopedFactories, t \in ScopeTags \cup {None} :
          RegisterFactory(f[1], f[2], t)
    \/ \E f \in ScopedFactories, t \in ScopeTags \cup {None} :
          RegisterFunction(f[1], f[2], t)

SpecScopes == Init /\ [][NextScopes]_vars

\* C12: after any register_scope and unregister_scope calls,
\* register_factory(spec, f, scope=t) and register_function(spec, f,
\* scope=t) raise UnknownScopeError exactly when the scope type t is not a
\* key of the scopes of the graph; the error carries t and the provider
\* map is left as it was.
C12_UnknownScope ==
    [][\A t \in ScopeTags :
         ( /\ result'.op \in {"register_factory", "register_function"}
           /\ result'.scope = t ) =>
             /\ result'.raised = "UnknownScopeError" <=>
                   t \notin DOMAIN scopes
             /\ result'.raised = "UnknownScopeError" =>
                   /\ result'.scope_type = t
                   /\ providers' = providers
                   /\ order' = order]_vars

\* register_function() has raised UnknownScopeError for ProcessScope, which
\* was unregistered after a factory had been registered with it.
C12_Witness ==
    /\ result.op = "register_function"
    /\ result.raised = "UnknownScopeError"
    /\ result.scope_type = "ProcessScope"
    /\ "ProcessScope" \notin DOMAIN scopes
    /\ "FooBarScope" \in DOMAIN scopes
    /\ \E S \in DOMAIN providers : providers[S].scope = "ProcessScope"

\* C18 as stated, its first half: register_function(spec, f, scope=t) with
\* a registered scope type t succeeds and registers a function provider
\* for spec.
C18_RegisterFunctionScoped ==
    [][\A t \in DOMAIN scopes :
         ( /\ result'.op = "register_function"
           /\ result'.scope = t ) =>
             /\ result'.raised = "none"
             /\ result'.specification \in DOMAIN providers'
             /\ providers'[result'.specification].kind
                   = "FunctionProvider"]_vars

\* ------------------------------------------------------------------------
\* Registration at any time: replacing and removing providers (SpecReplace)
\* ------------------------------------------------------------------------

\* The specifications whose provider is replaced, removed and resolved.
ReplaceSpecs == {"a", "b"}

\* Two user factories for the same specification, told apart by the
\* arguments they are injected with.
ReplaceFactories ==
    {<<"a", <<>>>>, <<"a", <<Entry(IntKey(0), Direct("b"))>>>>}

\* The instances given to register_instance().
ReplaceInstances == {<<"a", Instance(7)>>, <<"b", Instance(42)>>}

NextReplace ==
    \/ \E f \in ReplaceFactories, scope \in ScopeChoices :
          RegisterFactory(f[1], f[2], scope)
    \/ \E i \in ReplaceInstances : RegisterInstance(i[1], i[2])
    \/ \E S \in ReplaceSpecs : UnregisterProvider(S)
    \/ \E S \in ReplaceSpecs : Get(S, <<>>, <<>>)

SpecReplace == Init /\ [][NextReplace]_vars

\* Some scope holds an instance for S.
Remembered(S) == \E t \in DOMAIN cache : S \in DOMAIN cache[t]

\* C13: unregister_provider(spec) after a registration of spec restores
\* the not-found state: it removes the provider of spec and nothing else,
\* and every acquire(spec) or get(spec) made while spec has no provider
\* raises KeyError, calls no provider and changes no scope, also when a
\* scope holds an instance for spec.
C13_UnregisterRestoresNotFound ==
    /\ [][( /\ result'.op = "unregister_provider"
            /\ result'.raised = "none" ) =>
              /\ result'.specification \in DOMAIN providers
              /\ DOMAIN providers'
                    = DOMAIN providers \ {result'.specification}
              /\ \A S \in DOMAIN providers' : providers'[S] = providers[S]
              /\ Elements(order') = DOMAIN providers'
              /\ cache' = cache]_vars
    /\ [][( /\ result'.op \in AcquireOps
            /\ result'.specification \notin DOMAIN providers ) =>
              /\ result'.raised = "KeyError"
              /\ ~result'.invoked
              /\ cache' = cache
              /\ counter' = counter]_vars

\* get(spec) has raised KeyError while the scope of the removed provider
\* of spec still holds the instance built before.
C13_Witness ==
    /\ result.op = "get"
    /\ result.raised = "KeyError"
    /\ result.specification \notin DOMAIN providers
    /\ Remembered(result.specification)
    /\ counter[result.specification] = 1

\* The value is one that a call of the provider of S without arguments
\* from the caller returns: the instance of an instance provider, an
\* object built by the factory from its injected arguments.
ProducedBy(value, provider, S) ==
    IF provider.kind = "InstanceProvider"
    THEN value = provider.instance
    ELSE /\ value.kind = "object"
         /\ value.specification = S
         /\ Len(value.args)
              = Cardinality({i \in 1..Len(provider.dependencies) :
                               provider.dependencies[i].argument.type = "int"})
         /\ DOMAIN value.kwargs
              = {provider.dependencies[i].argument.name :
                   i \in {j \in 1..Len(provider.dependencies) :
                            provider.dependencies[j].argument.type = "str"}}

\* C14 as stated: once the provider p1 of spec has been replaced by p2,
\* every acquire(spec) returns a value produced by p2 (the provider now
\* registered) and never one produced by p1, also when both use the same
\* scope and the instance of p1 is cached there.
C14_ReplacedProviderIsUsed ==
    ( /\ result.op = "get"
      /\ result.raised = "none" ) =>
        ProducedBy(result.value, providers[result.specification],
                   result.specification)

\* ------------------------------------------------------------------------
\* Arguments of get() and acquire(), errors at first use (SpecArguments)
\* ------------------------------------------------------------------------

\* The user factories of SpecArguments with the scope they are registered
\* with: the function of test_get_arguments (a keyword argument injected),
\* one that has a positional argument injected too, one that depends on
\* its own specification, two that depend on each other.
ArgumentFactories ==
    {<<"a", <<Entry(StrKey("k"), Direct("c"))>>, None>>,
     <<"a", <<Entry(StrKey("k"), Direct("c"))>>, "SingletonScope">>,
     <<"a", <<Entry(IntKey(0), Direct("c")),
              Entry(StrKey("k"), Direct("c"))>>, None>>,
     <<"a", <<Entry(IntKey(0), Direct("a"))>>, None>>,
     <<"a", <<Entry(IntKey(0), Direct("a"))>>, "SingletonScope">>,
     <<"b", <<Entry(IntKey(0), Direct("c"))>>, None>>,
     <<"c", <<Entry(IntKey(0), Direct("b"))>>, None>>}

\* The instance registered for the injected specification.
ArgumentInstances == {<<"c", Instance(7)>>}

\* The calls get(spec, *args, **kwargs) of SpecArguments, as <<args,
\* kwargs>>: get('f'), get('f', 33, b=22), get('f', 33, b=22, c=44) and a
\* call with two positional arguments.
GetCalls ==
    {<<<<>>, <<>>>>,
     <<<<Given(1)>>, "j" :> Given(3)>>,
     <<<<Given(1)>>, ("j" :> Given(3)) @@ ("k" :> Given(4))>>,
     <<<<Given(1), Given(2)>>, <<>>>>}

\* The `arguments` of acquire() that hold a key of another type.
InvalidOverrides ==
    {OtherKey :> Given(5), (IntKey(0) :> Given(1)) @@ (OtherKey :> Given(5))}

NextArguments ==
    \/ /\ ~serving
       /\ \E f \in ArgumentFactories : RegisterFactory(f[1], f[2], f[3])
    \/ /\ ~serving
       /\ \E i \in ArgumentInstances : RegisterInstance(i[1], i[2])
    \/ \E S \in {"a", "b"}, arguments \in InvalidOverrides :
          Acquire(S, arguments)
    \/ \E S \in {"a", "b"}, call \in GetCalls : Get(S, call[1], call[2])

SpecArguments == Init /\ [][NextArguments]_vars

\* The override map the spec gives for get(spec, *args, **kwargs): the
\* positional arguments under the integer keys 0..n-1, the keyword
\* arguments under their names.
Packed(args, kwargs) ==
    [k \in {IntKey(i) : i \in 0..(Len(args) - 1)}
            \cup {StrKey(n) : n \in DOMAIN kwargs} |->
        IF k.type = "int" THEN args[k.index + 1] ELSE kwargs[k.name]]

\* C15, on one step.  get(spec, a0..an-1, **kw) ends as acquire(spec,
\* {0: a0, .., n-1: an-1} merged with kw) ends from the same state; when it
\* calls the provider, the positional and keyword values given are passed
\* through, also for a key that is injectable, and every dependency key
\* not given is filled by injection.
C15_Step ==
    result'.op = "get" =>
        LET S == result'.specification
            a == acquire(providers, Runtime, S,
                         Packed(result'.get_args, result'.get_kwargs), 0)
        IN  /\ result'.raised = a.raised
            /\ result'.value = a.value
            /\ result'.invoked = a.invoked
            /\ cache' = a.rt.cache
            /\ counter' = a.rt.counter
            /\ result'.invoked =>
                  /\ \A i \in 1..Len(result'.get_args) :
                        result'.args[i] = result'.get_args[i]
                  /\ \A n \in DOMAIN result'.get_kwargs :
                        result'.kwargs[n] = result'.get_kwargs[n]
                  /\ \A i \in 1..Len(providers[S].dependencies) :
                        LET e == providers[S].dependencies[i]
                            X == e.dependency.specification
                            keys == RealizedKeys(
                                      providers, S,
                                      Packed(result'.get_args,
                                             result'.get_kwargs))
                        IN  ( /\ e.argument \notin
                                   DOMAIN Packed(result'.get_args,
                                                 result'.get_kwargs)
                              /\ ~e.dependency.factory
                              /\ providers[X].kind = "InstanceProvider" ) =>
                                ReceivedFor(e.argument, keys, result'.args,
                                            result'.kwargs)
                                  = providers[X].instance

\* C15: get(spec, a0..an-1, **kw) behaves as acquire(spec, {0: a0, ..,
\* n-1: an-1} merged with kw).
C15_GetIsAcquire == [][C15_Step]_vars

\* get('f', 33, b=22) has called the factory with (33,), b=22 and the
\* injected instance for the keyword it declares a dependency for.
C15_Witness ==
    /\ result.op = "get"
    /\ result.raised = "none"
    /\ result.invoked
    /\ result.get_args = <<Given(1)>>
    /\ DOMAIN result.get_kwargs = {"j"}
    /\ result.args = <<Given(1)>>
    /\ DOMAIN result.kwargs = {"j", "k"}
    /\ result.kwargs["j"] = Given(3)
    /\ result.kwargs["k"] = Instance(7)

\* C16: when the resolved argument map of acquire(spec, overrides), made
\* when the scope of the provider does not hold spec, has a key that is
\* neither an integer nor a string, acquire does not return: the provider
\* of spec is not called and nothing is stored for spec; it raises
\* TypeError whenever the dependencies resolve.
C16_InvalidKey ==
    [][\A S \in DOMAIN providers :
         ( /\ result'.op = "acquire"
           /\ result'.specification = S
           /\ \E k \in DOMAIN result'.arguments :
                 k.type \notin {"int", "str"}
           /\ ~Cached(S) ) =>
             /\ result'.raised # "none"
             /\ result'.raised \notin {"KeyError", "RecursionError"} =>
                   result'.raised = "TypeError"
             /\ Sound(providers) => result'.raised = "TypeError"
             /\ ~result'.invoked
             /\ counter'[S] = counter[S]
             /\ \A t \in DOMAIN cache' :
                   S \in DOMAIN cache'[t] => S \in DOMAIN cache[t]]_vars

\* acquire() with a tuple key has raised TypeError for a scoped provider
\* after it had resolved the dependency of the provider, and the scope
\* holds nothing.
C16_Witness ==
    /\ result.op = "acquire"
    /\ result.raised = "TypeError"
    /\ OtherKey \in DOMAIN result.arguments
    /\ result.specification \in DOMAIN providers
    /\ providers[result.specification].scope # None
    /\ providers[result.specification].dependencies # <<>>
    /\ ~Cached(result.specification)
    /\ Sound(providers)

\* The direct dependencies of a provider, in the order of its map, that
\* are not given in `arguments`.
Unsupplied(provider, arguments) ==
    SelectSeq(provider.dependencies,
              LAMBDA e : ~e.dependency.factory
                           /\ e.argument \notin DOMAIN arguments)

\* The direct dependencies of a provider, in the order of its map.
DirectEntries(provider) ==
    SelectSeq(provider.dependencies, LAMBDA e : ~e.dependency.factory)

\* C17 as stated: without validate(), acquire/get of a provider that
\* depends on an unregistered specification signals the missing-dependency
\* error kind, and acquire/get of a provider that depends on its own
\* specification signals the self-dependency error kind.
C17_Original ==
    [][\A S \in DOMAIN providers :
         ( /\ result'.op \in {"acquire", "get"}
           /\ result'.specification = S
           /\ ~Cached(S)
           /\ Unsupplied(providers[S], result'.arguments) # <<>> ) =>
             LET X == Unsupplied(providers[S], result'.arguments)[1]
                        .dependency.specification
             IN  /\ X \notin DOMAIN providers =>
                       result'.raised = "MissingDependencyError"
                 /\ X = S => result'.raised = "SelfDependencyError"]_vars

\* C17 as amended: acquire/get raises none of the validation errors.  When
\* the scope of the provider does not hold spec and the first direct
\* dependency the caller does not supply is unregistered, acquire/get
\* raises KeyError and changes nothing; when the first direct dependency of
\* the provider is its own specification and the caller does not supply
\* it, acquire/get ends in RecursionError.
C17_DeferredErrors ==
    [][\A S \in DOMAIN providers :
         ( /\ result'.op \in {"acquire", "get"}
           /\ result'.specification = S ) =>
             /\ result'.raised \notin ValidationErrors
             /\ ( /\ ~Cached(S)
                  /\ Unsupplied(providers[S], result'.arguments) # <<>> ) =>
                   LET e == Unsupplied(providers[S], result'.arguments)[1]
                       X == e.dependency.specification
                   IN  /\ X \notin DOMAIN providers =>
                             /\ result'.raised = "KeyError"
                             /\ cache' = cache
                             /\ counter' = counter
                       /\ ( /\ X = S
                            /\ e = DirectEntries(providers[S])[1] ) =>
                             result'.raised = "RecursionError"]_vars

\* get() of a registered provider has raised KeyError for its unregistered
\* dependency, in a graph where another provider depends on itself.
C17_Witness ==
    /\ result.op = "get"
    /\ result.raised = "KeyError"
    /\ result.specification \in DOMAIN providers
    /\ \E e \in MissingEdges(providers) : e[1] = result.specification
    /\ SelfDependent(providers) # {}

\* ------------------------------------------------------------------------
\* Function providers and their wrappers (SpecFunction)
\* ------------------------------------------------------------------------

\* The functions given to FunctionProvider(), by the specification they
\* are registered for and their dependency map: foo(*args, **kwargs) of
\* providers_tests.py without dependency, the function of
\* test_some_positional_arguments (@inject(None, 'foo')) and one with an
\* injected keyword argument.
Functions ==
    {<<"a", <<>>>>,
     <<"a", <<Entry(IntKey(1), Direct("b"))>>>>,
     <<"a", <<Entry(StrKey("k"), Direct("b"))>>>>}

\* The instance registered for the injected specification.
FunctionInstances == {<<"b", Instance(42)>>}

\* The calls of a wrapper, as <<call_args, call_kwargs>>: w(), w(1),
\* w(1, 2), w(1, 2, test=1) and w(test=2) of providers_tests.py.
WrapperCalls ==
    {<<<<>>, <<>>>>,
     <<<<Given(1)>>, <<>>>>,
     <<<<Given(1), Given(2)>>, <<>>>>,
     <<<<Given(1), Given(2)>>, "k" :> Given(1)>>,
     <<<<>>, "k" :> Given(2)>>}

NextFunction ==
    \/ /\ ~serving
       /\ \E i \in FunctionInstances : RegisterInstance(i[1], i[2])
    \/ /\ ~serving
       /\ \E f \in Functions :
             RegisterProvider(f[1], FunctionProvider(f[2]))
    \/ \E f \in Functions : Get(f[1], <<>>, <<>>)
    \/ \E n \in 1..Len(wrappers), call \in WrapperCalls :
          CallWrapper(n, call[1], call[2])

SpecFunction == Init /\ [][NextFunction]_vars

\* C19 as stated: the arguments the wrapped function receives in a call
\* of a wrapper are the arguments fixed when the wrapper was acquired
\* combined with the arguments of that call only: the positional arguments
\* of the call followed by the fixed ones beyond them, the fixed keyword
\* arguments updated with the keyword arguments of the call.
C19_CallsAreIndependent ==
    result.op = "call_wrapper" =>
        LET fixed == result.callable
            n == Len(result.get_args)
        IN  /\ result.args
                 = result.get_args \o SubSeq(fixed.args, n + 1,
                                            Len(fixed.args))
            /\ DOMAIN result.kwargs
                 = DOMAIN fixed.kwargs \cup DOMAIN result.get_kwargs
            /\ \A name \in DOMAIN result.kwargs :
                  result.kwargs[name]
                    = IF name \in DOMAIN result.get_kwargs
                      THEN result.get_kwargs[name]
                      ELSE fixed.kwargs[name]

\* C20 as stated: for a function provider that injects the positional slot
\* 1 and not the slot 0, a call w(x) of the wrapper that get(spec) returned
\* passes x as the first argument of the function and the injected value
\* as its second.
C20_InjectedKeepsItsPosition ==
    ( /\ result.op = "call_wrapper"
      /\ Len(result.get_args) = 1
      /\ result.specification \in DOMAIN providers
      /\ providers[result.specification].kind = "FunctionProvider"
      /\ providers[result.specification].dependencies
           = <<Entry(IntKey(1), Direct("b"))>>
      /\ "b" \in DOMAIN providers ) =>
        result.args = <<result.get_args[1], providers["b"].instance>>

\* ------------------------------------------------------------------------
\* Scope objects under threads and processes (SpecScopeObjects)
\* ------------------------------------------------------------------------

\* The specifications the scope objects are asked for.
ScopeKeys == {"a", "b"}

\* A finished operation of thread t of process pid on scope object o: the
\* object as the call left it and what the caller observes.
ScopeCall(op, pid, t, o, specification, instances, r) ==
    /\ memory' = [memory EXCEPT ![pid][o] = r.scope]
    /\ result' = [NoResult EXCEPT !.op = op, !.process = pid, !.thread = t,
                                  !.scope = o,
                                  !.specification = specification,
                                  !.args = instances,
                                  !.raised = r.raised, !.value = r.value]
    /\ UNCHANGED <<providers, order, scopes, cache, counter, wrappers, held,
                   serving, threads>>

\* `specification in scope`
Contains(pid, t, o, specification) ==
    /\ ScopeCall("contains", pid, t, o, specification, <<>>,
                 __contains__(memory[pid][o], pid, t, specification))
    /\ UNCHANGED clock

\* `scope[specification]`
GetItem(pid, t, o, specification) ==
    /\ ScopeCall("getitem", pid, t, o, specification, <<>>,
                 __getitem__(memory[pid][o], pid, t, specification))
    /\ UNCHANGED clock

\* `scope[specification] = instance`, of an instance never stored before.
SetItem(pid, t, o, specification) ==
    LET instance == Given(clock + 1)
    IN  /\ clock < MaxStores
        /\ clock' = clock + 1
        /\ ScopeCall("setitem", pid, t, o, specification, <<instance>>,
                     __setitem__(memory[pid][o], pid, t, specification,
                                 instance))

\* os.fork() by thread t of the parent (multiprocessing.Process.start() in
\* scopes_tests.py).
Fork(t) ==
    /\ "child" \notin DOMAIN memory
    /\ memory' = memory @@ ("child" :> Forked(memory["parent"], t))
    /\ result' = [NoResult EXCEPT !.op = "fork", !.process = "parent",
                                  !.thread = t]
    /\ UNCHANGED <<providers, order, scopes, cache, counter, wrappers, held,
                   serving, clock, threads>>

\* The threads that run: the two of the parent and the main thread of the
\* child, which runs the target of the Process (scopes_tests.py:83-96).
Running ==
    {<<"parent", t>> : t \in Threads}
        \cup {<<pid, "main">> : pid \in DOMAIN memory}

NextScopeObjects ==
    \/ \E r \in Running, o \in ScopeObjects, S \in ScopeKeys :
          Contains(r[1], r[2], o, S)
    \/ \E r \in Running, o \in ScopeObjects, S \in ScopeKeys :
          GetItem(r[1], r[2], o, S)
    \/ \E r \in Running, o \in ScopeObjects, S \in ScopeKeys :
          SetItem(r[1], r[2], o, S)
    \/ Fork("main")

SpecScopeObjects == Init /\ [][NextScopeObjects]_vars

\* What thread t of process pid finds in scope object o when the memory
\* of the processes is m: the entries of the dictionary its next operation
\* works on.
Found(m, pid, t, o) ==
    LET scope == m[pid][o]
    IN  IF scope.class = "ThreadScope"
        THEN IF t \in DOMAIN scope._local THEN scope._local[t] ELSE <<>>
        ELSE IF scope.class = "ProcessScope" /\ scope._pid # pid
        THEN <<>>
        ELSE scope._cache

View(pid, t, o) == Found(memory, pid, t, o)

\* C21: within one scope object, one thread and one process, the object
\* is a dictionary of what was stored.  Every object starts without
\* entries; contains(spec) tells whether spec is among the entries and
\* load(spec) returns the entry of spec, or raises KeyError when there is
\* none, both leaving every entry as it was; store(spec, x) makes x the
\* entry of spec and changes no other entry of the object and no entry of
\* another object.
C21_ScopeIsADictionary ==
    /\ \A o \in ScopeObjects, t \in Threads : View("parent", t, o) = <<>>
    /\ [][result'.op \in {"contains", "getitem", "setitem"} =>
            LET pid == result'.process
                t == result'.thread
                o == result'.scope
                S == result'.specification
                before == View(pid, t, o)
                after == Found(memory', pid, t, o)
            IN  /\ result'.op = "contains" =>
                     /\ result'.value = (S \in DOMAIN before)
                     /\ result'.raised = "none"
                /\ result'.op = "getitem" =>
                     /\ S \in DOMAIN before =>
                          /\ result'.raised = "none"
                          /\ result'.value = before[S]
                     /\ S \notin DOMAIN before =>
                          result'.raised = "KeyError"
                /\ result'.op = "setitem" =>
                     /\ DOMAIN after = DOMAIN before \cup {S}
                     /\ after[S] = result'.args[1]
                     /\ \A T \in DOMAIN before \ {S} : after[T] = before[T]
                /\ result'.op # "setitem" => after = before
                /\ \A other \in ScopeObjects \ {o} :
                      Found(memory', pid, t, other) = View(pid, t, other)]_vars

\* A load has returned the second value stored, from an object that holds
\* this entry alone while no other object holds any: the first value was
\* stored for the same specification of the same object.
C21_Witness ==
    /\ result.op = "getitem"
    /\ result.value = Given(2)
    /\ View(result.process, result.thread, result.scope)
         = (result.specification :> Given(2))
    /\ \A pid \in DOMAIN memory, t \in Threads,
          o \in ScopeObjects \ {result.scope} : View(pid, t, o) = <<>>

\* The scope objects of class ProcessScope.
ProcessScopes == {o \in ScopeObjects : ScopeClass[o] = "ProcessScope"}

\* C22: a process scope forgets its entries when the process changes.  The
\* forked child starts without entries in it; on an object the child has
\* not used yet, contains answers False, load raises KeyError and store
\* leaves the stored entry alone in it, whatever the parent had stored;
\* afterwards the child's operations answer from what the child stored,
\* which only the child's stores change; and no operation of the child
\* changes what the threads of the parent find in the object.
C22_ForkedChildStartsEmpty ==
    [][\A o \in ProcessScopes :
         /\ result'.op = "fork" => Found(memory', "child", "main", o) = <<>>
         /\ ( /\ result'.process = "child"
              /\ result'.scope = o ) =>
                LET S == result'.specification
                    unused == memory["child"][o]._pid = "parent"
                    before == View("child", "main", o)
                    after == Found(memory', "child", "main", o)
                IN  /\ unused => before = <<>>
                    /\ result'.op = "contains" =>
                         /\ result'.value = (S \in DOMAIN before)
                         /\ after = before
                    /\ result'.op = "getitem" =>
                         /\ result'.raised
                              = IF S \in DOMAIN before THEN "none"
                                ELSE "KeyError"
                         /\ S \in DOMAIN before =>
                              result'.value = before[S]
                         /\ after = before
                    /\ result'.op = "setitem" =>
                         after = (S :> result'.args[1]) @@ before
         /\ ( /\ "child" \in DOMAIN memory
              /\ result'.process = "parent" ) =>
                Found(memory', "child", "main", o) = View("child", "main", o)
         /\ result'.process = "child" =>
              \A t \in Threads :
                 Found(memory', "parent", t, o) = View("parent", t, o)]_vars

\* The child has loaded from a process scope the value it stored there for
\* a specification for which the parent holds the value the parent stored
\* before the fork.
C22_Witness ==
    /\ result.op = "getitem"
    /\ result.process = "child"
    /\ result.scope \in ProcessScopes
    /\ result.value = Given(2)
    /\ result.specification \in DOMAIN View("parent", "main", result.scope)
    /\ View("parent", "main", result.scope)[result.specification] = Given(1)

\* The scope objects of class ThreadScope.
ThreadScopes == {o \in ScopeObjects : ScopeClass[o] = "ThreadScope"}

\* C23: what a thread stores in a scope object is seen by the other
\* threads of its process according to the class of the object.  In a
\* thread scope, a thread that has not used the object yet finds no
\* entry in it, a store by one thread changes nothing of what another
\* thread finds, the stored value is not what a load by another thread
\* returns, and no operation of one thread changes what another finds.
\* In a singleton or process scope, each other thread of the process
\* finds the specification contained right after the store and loads the
\* stored value.
C23_VisibilityFollowsScopeClass ==
    [][result'.op \in {"contains", "getitem", "setitem"} =>
         LET pid == result'.process
             t == result'.thread
             o == result'.scope
             S == result'.specification
             others == {u \in Threads \ {t} : <<pid, u>> \in Running}
         IN  IF o \in ThreadScopes
             THEN /\ t \notin DOMAIN memory[pid][o]._local =>
                       /\ result'.op = "contains" => result'.value = FALSE
                       /\ result'.op = "getitem" =>
                            result'.raised = "KeyError"
                       /\ result'.op = "setitem" =>
                            Found(memory', pid, t, o)
                              = (S :> result'.args[1])
                  /\ \A u \in others :
                        /\ Found(memory', pid, u, o) = View(pid, u, o)
                        /\ __contains__(memory'[pid][o], pid, u, S).value
                             = __contains__(memory[pid][o], pid, u, S).value
                        /\ result'.op = "setitem" =>
                             __getitem__(memory'[pid][o], pid, u, S).value
                               # result'.args[1]
             ELSE result'.op = "setitem" =>
                    \A u \in others :
                       /\ __contains__(memory'[pid][o], pid, u, S).value
                       /\ __getitem__(memory'[pid][o], pid, u, S).value
                            = result'.args[1]]_vars

\* A thread of the parent has loaded from a singleton or process scope
\* the value the other thread stored there, while in the thread scope
\* the two threads hold different values for one specification.
C23_Witness ==
    /\ result.op = "getitem"
    /\ result.process = "parent"
    /\ result.thread = "thread"
    /\ result.scope \notin ThreadScopes
    /\ result.value = Given(2)
    /\ \E o \in ThreadScopes, S \in ScopeKeys :
          /\ S \in DOMAIN View("parent", "main", o)
          /\ S \notin DOMAIN View("parent", "thread", o)

\* ------------------------------------------------------------------------
\* acquire() called from several threads (SpecThreads)
\* ------------------------------------------------------------------------

\* The factories registered, none with a dependency, and the scopes they
\* are registered in: the two whose instance all threads share, and none.
SharedFactories == {"a", "b"}

SharedScopes == {None, "SingletonScope", "ProcessScope"}

\* What the caller observes of a step of thread t.
Step(op, t, frame) ==
    [NoResult EXCEPT !.op = op, !.thread = t,
                     !.specification = frame.specification,
                     !.raised = frame.raised, !.value = frame.instance,
                     !.invoked = frame.invoked]

\* A step of thread t that leaves it with `frame`.
Advance(op, t, frame) ==
    /\ threads' = [threads EXCEPT ![t] = frame]
    /\ result' = Step(op, t, frame)
    /\ serving' = TRUE
    /\ UNCHANGED <<providers, order, scopes, held, memory, clock>>

\* Thread t calls acquire(specification) and runs it up to the test
\* `specification in provider.scope` (graph.py:163-169); an unregistered
\* specification ends the call with the KeyError of line 167.
Begin(t, specification) ==
    /\ threads[t].pc \in {"idle", "returned"}
    /\ LET frame == [NoFrame EXCEPT !.specification = specification]
       IN  IF specification \notin DOMAIN providers
           THEN Advance("begin", t, [frame EXCEPT !.pc = "returned",
                                                  !.raised = "KeyError"])
           ELSE LET provider == providers[specification]
                IN  Advance("begin", t,
                            [frame EXCEPT
                               !.provider = provider,
                               !.pc = IF CacheHit(provider, cache,
                                                  specification)
                                      THEN "load" ELSE "invoke"])
    /\ UNCHANGED <<cache, counter, wrappers>>

\* `return provider.scope[specification]` (graph.py:170)
Load(t) ==
    LET frame == threads[t]
    IN  /\ frame.pc = "load"
        /\ Advance("load", t,
                   [frame EXCEPT
                      !.pc = "returned",
                      !.instance = cache[frame.provider.scope]
                                        [frame.specification]])
        /\ UNCHANGED <<cache, counter, wrappers>>

\* `instance = provider(*args, **kwargs)` with no argument (graph.py:171-203)
\* and, for a provider without scope, the return of line 206.
Call(t) ==
    LET frame == threads[t]
        r == Invoke(frame.provider, frame.specification, Runtime,
                    <<>>, <<>>)
    IN  /\ frame.pc = "invoke"
        /\ Calls(r.counter) <= MaxCalls
        /\ counter' = r.counter
        /\ wrappers' = r.wrappers
        /\ Advance("invoke", t,
                   [frame EXCEPT
                      !.pc = IF frame.provider.scope # None
                             THEN "store" ELSE "returned",
                      !.instance = r.value,
                      !.invoked = TRUE])
        /\ UNCHANGED cache

\* `provider.scope[specification] = instance` and the return
\* (graph.py:204-206)
StoreAndReturn(t) ==
    LET frame == threads[t]
    IN  /\ frame.pc = "store"
        /\ cache' = Store(frame.provider, cache, frame.specification,
                          frame.instance)
        /\ Advance("store", t, [frame EXCEPT !.pc = "returned"])
        /\ UNCHANGED <<counter, wrappers>>

NextThreads ==
    \/ /\ ~serving
       /\ \E S \in SharedFactories, scope \in SharedScopes :
             RegisterFactory(S, <<>>, scope)
    \/ \E t \in Threads, S \in SharedFactories : Begin(t, S)
    \/ \E t \in Threads : Load(t)
    \/ \E t \in Threads : Call(t)
    \/ \E t \in Threads : StoreAndReturn(t)

SpecThreads == Init /\ [][NextThreads]_vars

\* The specifications registered with a scope all threads share.
Shared == {S \in DOMAIN providers : providers[S].scope # None}

\* Thread t is in a call of acquire(S) between the test that found S
\* absent and the store.
InFlight(t, S) ==
    /\ threads[t].specification = S
    /\ threads[t].pc \in {"invoke", "store"}

\* C24: last write wins.  For a provider in singleton or process scope,
\* under every interleaving of the steps of the threads: a store makes
\* the stored instance the entry of the specification whatever was there,
\* and no other step changes the entry, so that the scope holds what the
\* last store wrote; and once an entry is there and no call is left
\* between its test and its store, it stays as it is, the provider is not
\* invoked again, and every acquire(spec) that returns returns the entry
\* without having invoked the provider.
C24_LastWriteWins ==
    [][\A S \in Shared :
         LET entries == cache[providers[S].scope]
             entries_after == cache'[providers[S].scope]
             stored == /\ result'.op = "store"
                       /\ result'.specification = S
         IN  /\ stored =>
                  /\ S \in DOMAIN entries_after
                  /\ entries_after[S] = threads[result'.thread].instance
             /\ ~stored =>
                  /\ (S \in DOMAIN entries_after) = (S \in DOMAIN entries)
                  /\ S \in DOMAIN entries => entries_after[S] = entries[S]
             /\ ( /\ S \in DOMAIN entries
                  /\ \A t \in Threads : ~InFlight(t, S) ) =>
                    /\ S \in DOMAIN entries_after
                    /\ entries_after[S] = entries[S]
                    /\ counter'[S] = counter[S]
                    /\ \A t \in Threads : ~InFlight(t, S)'
                    /\ ( /\ result'.specification = S
                         /\ threads'[result'.thread].pc = "returned" ) =>
                           /\ result'.raised = "none"
                           /\ result'.value = entries[S]
                           /\ ~result'.invoked]_vars

\* Two calls of acquire(S) have raced, each invoking the provider, and
\* both have returned; a call begun afterwards has returned the instance
\* of the later store, which is the entry, without invoking the provider.
C24_Witness ==
    \E S \in Shared :
       /\ counter[S] = 2
       /\ result.op = "load"
       /\ result.specification = S
       /\ ~result.invoked
       /\ result.value = cache[providers[S].scope][S]
       /\ \A t \in Threads : threads[t].pc = "returned"
       /\ \E t \in Threads :
             /\ threads[t].invoked
             /\ threads[t].specification = S
             /\ threads[t].instance # cache[providers[S].scope][S]

\* C25: the invocation of the provider is not deduplicated.  For a
\* provider in singleton or process scope: a call of acquire(S) that
\* begins while another is between its test and its store, with no entry
\* stored yet, finds S absent as well; a call that found S absent invokes
\* the provider even when another call has made or stored an instance in
\* between, and gets an instance no other call got; and its store puts
\* this instance in place of the one stored before.
C25_NoDeduplication ==
    [][\A S \in Shared :
         LET entries == cache[providers[S].scope]
             t == result'.thread
         IN  result'.specification = S =>
               /\ ( /\ result'.op = "begin"
                    /\ S \notin DOMAIN entries ) =>
                      threads'[t].pc = "invoke"
               /\ result'.op = "invoke" =>
                    /\ threads[t].pc = "invoke"
                    /\ counter'[S] = counter[S] + 1
                    /\ \A u \in Threads \ {t} :
                          threads[u].specification = S =>
                             threads'[t].instance # threads[u].instance
                    /\ S \in DOMAIN entries =>
                         threads'[t].instance # entries[S]
               /\ ( /\ result'.op = "store"
                    /\ S \in DOMAIN entries ) =>
                      /\ cache'[providers[S].scope][S]
                           = threads[t].instance
                      /\ cache'[providers[S].scope][S] # entries[S]]_vars

\* Both threads have found S absent, invoked the provider and returned,
\* each with its own instance; the entry is the instance stored last.
C25_Witness ==
    \E S \in Shared :
       /\ counter[S] = 2
       /\ \A t \in Threads :
             /\ threads[t].pc = "returned"
             /\ threads[t].specification = S
             /\ threads[t].invoked
       /\ threads["main"].instance # threads["thread"].instance
       /\ result.op = "store"
       /\ cache[providers[S].scope][S] = threads[result.thread].instance

\* ------------------------------------------------------------------------
\* Modules (configuration.py, SpecModule)
\* ------------------------------------------------------------------------

\* The module classes: the attribute `factories`, from specification to
\* <<dependency map of the factory, scope type or None>>, and the method
\* marked @provides, if any, as <<specification, dependency map, scope
\* type of @scope or None>>.  The first is the module of
\* configuration_tests.py with `'singleton': (SomeClass, ProcessScope)`.
Modules ==
    {[factories |-> ("a" :> <<<<>>, "ProcessScope">>),
      provides |-> <<>>],
     [factories |-> ("a" :> <<<<>>, None>>)
                      @@ ("b" :> <<<<>>, "SingletonScope">>),
      provides |-> <<>>],
     [factories |-> ("b" :> <<<<Entry(IntKey(0), Direct("a"))>>, None>>),
      provides |-> <<"c", <<>>, "ProcessScope">>]}

\* ModuleMetaclass.__new__: the attribute `providers` made of `factories`,
\* each factory with the scope given for it, as it was given.
ModuleProviders(module) ==
    [S \in DOMAIN module.factories |->
        FactoryProvider(module.factories[S][1],
                        IF module.factories[S][2] = None THEN None
                        ELSE TypeObject(module.factories[S][2]))]

\* Module.add_to(graph): register_provider() for every provider of the
\* module, in the iteration order of the dictionary, then
\* register_factory() for the method marked @provides, which looks the
\* scope type up in Graph.scopes.
AddTo(module) ==
    /\ \E keys \in Orders(DOMAIN module.factories) :
          LET registered == ModuleProviders(module) @@ providers
              ordered == order \o SelectSeq(keys,
                                            LAMBDA S :
                                              S \notin DOMAIN providers)
              raised == IF /\ module.provides # <<>>
                           /\ module.provides[3] # None
                           /\ module.provides[3] \notin DOMAIN scopes
                        THEN "UnknownScopeError" ELSE "none"
          IN  /\ IF module.provides = <<>> \/ raised # "none"
                 THEN /\ providers' = registered
                      /\ order' = ordered
                 ELSE LET S == module.provides[1]
                          scope == module.provides[3]
                      IN  /\ providers'
                               = (S :> FactoryProvider(
                                         module.provides[2],
                                         IF scope = None THEN None
                                         ELSE scopes[scope]))
                                   @@ registered
                          /\ order' = IF S \in DOMAIN registered
                                      THEN ordered
                                      ELSE Append(ordered, S)
              /\ result' = [NoResult EXCEPT !.op = "add_to",
                                            !.raised = raised]
    /\ UNCHANGED <<scopes, cache, counter, wrappers, held, serving,
                   memory, clock, threads>>

NextModule ==
    \/ /\ ~serving
       /\ \E module \in Modules : AddTo(module)
    \/ \E S \in Specs : Get(S, <<>>, <<>>)

SpecModule == Init /\ [][NextModule]_vars

\* The provider registered for S is the one a module declares for it in
\* `factories` with a scope type.
DeclaredScoped(S) ==
    \E module \in Modules :
       /\ S \in DOMAIN module.factories
       /\ module.factories[S][2] # None
       /\ providers[S] = ModuleProviders(module)[S]

\* C26 as stated: get(spec) of a factory that a module declares with a
\* scope type, registered by add_to(), succeeds and its value is the
\* instance the scope of the graph holds for spec, which a repeated
\* get(spec) returns.
C26_ModuleScopedFactoryIsCached ==
    \A S \in DOMAIN providers :
       ( /\ result.op = "get"
         /\ result.specification = S
         /\ DeclaredScoped(S) ) =>
           /\ result.raised = "none"
           /\ \E t \in DOMAIN cache :
                 /\ S \in DOMAIN cache[t]
                 /\ cache[t][S] = result.value

\* ------------------------------------------------------------------------
\* acquire() with overrides, failures and validation (SpecResolve)
\* ------------------------------------------------------------------------

\* The user factories of SpecResolve: `a` takes `b` and, in one version,
\* `c` under the keyword k; `b` takes `c` under the same keyword k, or
\* nothing, or `a`, which closes a cycle, or `c` and then `a`.
ResolveFactories ==
    {<<"a", <<Entry(IntKey(0), Direct("b"))>>>>,
     <<"a", <<Entry(IntKey(0), Direct("b")),
              Entry(StrKey("k"), Direct("c"))>>>>,
     <<"b", <<>>>>,
     <<"b", <<Entry(StrKey("k"), Direct("c"))>>>>,
     <<"b", <<Entry(IntKey(0), Direct("a"))>>>>,
     <<"b", <<Entry(IntKey(0), Direct("c")),
              Entry(IntKey(1), Direct("a"))>>>>}

\* The factory that raises, registered for `a` with `b` as dependency.
FailingFactories == {<<"a", <<Entry(IntKey(0), Direct("b"))>>>>}

\* The instance registered for `c`.
ResolveInstances == {<<"c", Instance(7)>>}

\* The `arguments` given to acquire(): none, a value for the keyword k
\* that both `a` and `b` take, and a key that is no argument key.
ResolveOverrides ==
    {<<>>, StrKey("k") :> Given(1), OtherKey :> Given(5)}

NextResolve ==
    \/ /\ ~serving
       /\ \E f \in ResolveFactories, scope \in ScopeChoices :
             RegisterFactory(f[1], f[2], scope)
    \/ /\ ~serving
       /\ \E f \in FailingFactories, scope \in ScopeChoices :
             RegisterProvider(f[1],
                              FailingFactoryProvider(
                                f[2],
                                IF scope = None THEN None
                                ELSE scopes[scope]))
    \/ /\ ~serving
       /\ \E i \in ResolveInstances : RegisterInstance(i[1], i[2])
    \/ \E S \in Specs, arguments \in ResolveOverrides :
          Acquire(S, arguments)
    \/ Validate

SpecResolve == Init /\ [][NextResolve]_vars

\* The operations that register or unregister.
Registrations ==
    {"register_factory", "register_instance", "register_provider",
     "register_function", "unregister_provider", "register_scope",
     "unregister_scope", "add_to"}

\* C27: validate() is a pure check.  Whether it returns or raises, a
\* validate() leaves the provider map and its order, the scope map, the
\* content of every scope cache, the call counts of the factories and the
\* wrappers as they were; a validate() made again right after it ends the
\* same way; and the way validate() ends does not change in a step that
\* is no registration.
C27_ValidateIsPure ==
    [][/\ result'.op = "validate" =>
            /\ providers' = providers
            /\ order' = order
            /\ scopes' = scopes
            /\ cache' = cache
            /\ counter' = counter
            /\ wrappers' = wrappers
            /\ validate(providers', order') = result'.error
       /\ result'.op \notin Registrations =>
            validate(providers', order') = validate(providers, order)]_vars

\* validate() has raised in a graph whose scopes hold instances that
\* factories have made.
C27_Witness ==
    /\ result.op = "validate"
    /\ result.error # NoError
    /\ Calls(counter) > 0
    /\ \E t \in DOMAIN cache : cache[t] # <<>>

\* The values that acquire(D) with no `arguments` returns for the
\* specifications D of `entries` from the i-th on, each call starting from
\* the caches and counters the call before it left.
RECURSIVE AcquiredAlone(_, _, _, _)
AcquiredAlone(P, rt, entries, i) ==
    IF i > Len(entries) THEN <<>>
    ELSE LET sub == acquire(P, rt, entries[i].dependency.specification,
                            <<>>, 1)
         IN  <<sub.value>> \o AcquiredAlone(P, sub.rt, entries, i + 1)

\* C28: the overrides of acquire(spec, overrides) go to the provider of
\* spec alone.  When the call invokes the provider, the provider receives
\* each override under its key, and for each dependency that acquire
\* resolves itself it receives what acquire of that dependency with an
\* empty override map returns, also when an override key names an
\* argument of that dependency.
C28_OverridesStopAtTheProvider ==
    [][( /\ result'.op = "acquire"
         /\ result'.invoked ) =>
           LET S == result'.specification
               arguments == result'.arguments
               keys == RealizedKeys(providers, S, arguments)
               entries == Unsupplied(providers[S], arguments)
               alone == AcquiredAlone(providers, Runtime, entries, 1)
           IN  /\ \A k \in DOMAIN arguments :
                     ReceivedFor(k, keys, result'.args, result'.kwargs)
                       = arguments[k]
               /\ \A i \in 1..Len(entries) :
                     ReceivedFor(entries[i].argument, keys,
                                 result'.args, result'.kwargs)
                       = alone[i]]_vars

\* acquire('a', {k: x}) has passed x to the factory of `a` under k and,
\* as first argument, an object of `b` that a factory made with the
\* instance of `c` under its own keyword k.
C28_Witness ==
    /\ result.op = "acquire"
    /\ result.specification = "a"
    /\ result.arguments = (StrKey("k") :> Given(1))
    /\ result.invoked
    /\ result.kwargs = ("k" :> Given(1))
    /\ Len(result.args) = 1
    /\ result.args[1].kind = "object"
    /\ result.args[1].specification = "b"
    /\ result.args[1].kwargs = ("k" :> Instance(7))

\* The specifications S depends on without a Factory.
EagerSuccessors(P, S) ==
    {T \in Specs : \E i \in 1..Len(P[S].dependencies) :
                      P[S].dependencies[i].dependency = Direct(T)}

\* S is on a cycle of dependencies none of which is wrapped in a Factory.
OnEagerCycle(P, S) ==
    \E T \in EagerSuccessors(P, S) :
       S \in EagerClosure(P, {T}, Cardinality(Specs))

\* No scope holds an instance.
ColdCaches == \A t \in DOMAIN cache : cache[t] = <<>>

\* The depth at which a call of acquire() must start for the nested calls
\* to be cut off once they are more than the registered specifications.
DepthLeft(P) == MaxDepth + 1 - Cardinality(DOMAIN P)

\* How acquire(S) with no overrides ends from the present state when
\* validate() succeeds on it: it returns or fails with an error of the
\* provider, also when no more nested calls are allowed than there are
\* registered specifications; it raises neither the not-found error nor
\* the error of endless recursion.
C29_ValidatedPart(S) ==
    validate(providers, order) = NoError =>
        /\ acquire(providers, Runtime, S, <<>>, 0).raised
             \notin {"KeyError", "RecursionError"}
        /\ acquire(providers, Runtime, S, <<>>, DepthLeft(providers)).raised
             \notin {"KeyError", "RecursionError"}

\* C29 as stated: after a successful validate(), acquire(spec) with no
\* overrides ends for every registered spec without the not-found error,
\* within as many nested calls as there are registered specifications;
\* and acquire of a specification on an eager dependency cycle with cold
\* caches recurses without bound.
C29_Original ==
    \A S \in DOMAIN providers :
       /\ C29_ValidatedPart(S)
       /\ ( /\ OnEagerCycle(providers, S)
            /\ ColdCaches ) =>
              acquire(providers, Runtime, S, <<>>, 0).raised
                = "RecursionError"

\* C29 as amended: on an eager dependency cycle with cold caches,
\* acquire(spec) returns nothing: it recurses without bound, or raises
\* the not-found error of an unregistered dependency that it reaches
\* before the cycle closes; it recurses without bound when every
\* specification it reaches eagerly is registered.
C29_ValidatedAcquireTerminates ==
    \A S \in DOMAIN providers :
       /\ C29_ValidatedPart(S)
       /\ ( /\ OnEagerCycle(providers, S)
            /\ ColdCaches ) =>
              LET raised == acquire(providers, Runtime, S, <<>>, 0).raised
              IN  /\ raised \in {"RecursionError", "KeyError"}
                  /\ raised = "KeyError" =>
                       Eager(providers, S) \ DOMAIN providers # {}
                  /\ Eager(providers, S) \subseteq DOMAIN providers =>
                       raised = "RecursionError"

\* acquire('a') has returned an object in a graph on which validate()
\* succeeds and where `a` needs two nested calls, and the graph holds as
\* many specifications as the calls it took.
C29_Witness ==
    /\ result.op = "acquire"
    /\ result.specification = "a"
    /\ result.arguments = <<>>
    /\ result.raised = "none"
    /\ result.invoked
    /\ validate(providers, order) = NoError
    /\ DOMAIN providers = Specs
    /\ providers["b"].dependencies # <<>>

\* The dependencies of `entries`, from the i-th on, that acquire() resolves
\* before the first one that fails, each nested call starting from what
\* the call before it left.
RECURSIVE ResolvedBeforeFailure(_, _, _, _)
ResolvedBeforeFailure(P, rt, entries, i) ==
    IF i > Len(entries) THEN {}
    ELSE LET D == entries[i].dependency.specification
             sub == acquire(P, rt, D, <<>>, 1)
         IN  IF sub.raised # "none" THEN {}
             ELSE {D} \cup ResolvedBeforeFailure(P, sub.rt, entries, i + 1)

\* C30: an acquire(spec) that raises stores no value for spec, so the
\* scope of its provider does not hold spec afterwards and a later
\* acquire(spec) misses the cache; it is not rolled back: every scope
\* keeps what it held, and every dependency with a scope that the call
\* resolved before the failure is held by its scope afterwards.
C30_FailedAcquireIsNotRolledBack ==
    [][( /\ result'.op = "acquire"
         /\ result'.raised # "none" ) =>
           LET S == result'.specification
           IN  /\ \A t \in DOMAIN cache' :
                     /\ S \in DOMAIN cache'[t] => S \in DOMAIN cache[t]
                     /\ \A D \in DOMAIN cache[t] :
                           /\ D \in DOMAIN cache'[t]
                           /\ cache'[t][D] = cache[t][D]
               /\ S \in DOMAIN providers =>
                     /\ providers[S].scope # None =>
                           S \notin DOMAIN cache'[providers[S].scope]
                     /\ \A D \in ResolvedBeforeFailure(
                                    providers, Runtime,
                                    Unsupplied(providers[S], result'.arguments),
                                    1) :
                           providers[D].scope # None =>
                              D \in DOMAIN cache'[providers[D].scope]]_vars

\* acquire('a') has failed after its dependency `b`, a factory in the
\* singleton scope, was resolved: the scope holds the one object of `b`
\* that was made and nothing for `a`, which is in the same scope.
C30_Witness ==
    /\ result.op = "acquire"
    /\ result.specification = "a"
    /\ result.raised \in {"KeyError", "TypeError", "ValueError"}
    /\ "a" \in DOMAIN providers
    /\ providers["a"].scope = "SingletonScope"
    /\ "b" \in DOMAIN providers
    /\ providers["b"].scope = "SingletonScope"
    /\ DOMAIN cache["SingletonScope"] = {"b"}
    /\ Calls(counter) = 1

====
